---- MODULE Spec2Model ----
(***************************************************************************)
(* RFC7807 problem pipeline of the FastAPI service template:               *)
(*   - ProblemException / ProblemResponse (model/problem)                  *)
(*   - the exception handler with pre/post hooks (config/problem_configurator)*)
(*   - UnhandledExceptionsMiddleware (middleware/error_middleware)         *)
(*   - KillSwitchMiddleware (middleware/kill_switch_middleware)            *)
(***************************************************************************)
EXTENDS Integers, Sequences, FiniteSets, TLC

(***************************************************************************)
(* Bounds of the model.                                                    *)
(***************************************************************************)
\* longest list of pre-hooks and of post-hooks that is registered
MaxHooks == 2
\* most http.response.body messages the wrapped app sends
MaxBodyMsgs == 1
\* most field violations a RequestValidationError carries
MaxErrors == 2
\* most fields of a ProblemException that are set after its construction
MaxSets == 1
\* most requests that pass through KillSwitchMiddleware
MaxRequests == 3
MaxTime == 2
MaxCalls == 3
MaxCompulsory == 2

(***************************************************************************)
(* Python values.  Every value carries its type tag, so that None, "", 0   *)
(* and [] are different values that are all falsy.  A list or a tuple has  *)
(* its elements in l, a dict its (key, value) items in d, in the order of  *)
(* their insertion; an object of another class has the name of its class   *)
(* as its tag and the text of its repr() in s.                             *)
(***************************************************************************)
None == [t |-> "none", s |-> "", n |-> 0, l |-> <<>>, d |-> <<>>]
StrV(x) == [t |-> "str", s |-> x, n |-> 0, l |-> <<>>, d |-> <<>>]
IntV(i) == [t |-> "int", s |-> "", n |-> i, l |-> <<>>, d |-> <<>>]
ListV(q) == [t |-> "list", s |-> "", n |-> 0, l |-> q, d |-> <<>>]
TupleV(q) == [t |-> "tuple", s |-> "", n |-> 0, l |-> q, d |-> <<>>]
DictV(items) == [t |-> "dict", s |-> "", n |-> 0, l |-> <<>>, d |-> items]
ObjV(cls, text) == [t |-> cls, s |-> text, n |-> 0, l |-> <<>>, d |-> <<>>]

\* bool(v)
Truthy(v) ==
    CASE v.t = "none" -> FALSE
      [] v.t = "str" -> v.s # ""
      [] v.t = "int" -> v.n # 0
      [] v.t \in {"list", "tuple"} -> v.l # <<>>
      [] v.t = "dict" -> v.d # <<>>
      [] OTHER -> TRUE

Digit(d) ==
    CASE d = 0 -> "0" [] d = 1 -> "1" [] d = 2 -> "2" [] d = 3 -> "3"
      [] d = 4 -> "4" [] d = 5 -> "5" [] d = 6 -> "6" [] d = 7 -> "7"
      [] d = 8 -> "8" [] d = 9 -> "9"

RECURSIVE IntToStr(_)
\* str(i) of a non-negative int
IntToStr(i) == IF i < 10 THEN Digit(i) ELSE IntToStr(i \div 10) \o Digit(i % 10)

\* the int literals a string of the model can spell
IntLiterals == {0, 200, 400, 404, 409, 422, 500, 503, 999}

\* a text holds the character c
HasChar(s, c) == \E i \in 1..Len(s) : SubSeq(s, i, i) = c

\* the quote repr() puts around a string: the double quote when the string holds a
\* single quote and no double quote
ReprQuote(s) == IF HasChar(s, "'") /\ ~HasChar(s, "\"") THEN "\"" ELSE "'"

RECURSIVE ReprEscape(_, _)
\* the escapes of repr() in a string that is written between the quotes q
ReprEscape(s, q) ==
    IF \A i \in 1..Len(s) : SubSeq(s, i, i) \notin {"\n", "\\", q} THEN s
    ELSE LET b == CHOOSE i \in 1..Len(s) :
                      /\ SubSeq(s, i, i) \in {"\n", "\\", q}
                      /\ \A j \in 1..(i - 1) : SubSeq(s, j, j) \notin {"\n", "\\", q}
             c == SubSeq(s, b, b)
         IN  SubSeq(s, 1, b - 1) \o (IF c = "\n" THEN "\\n" ELSE "\\" \o c)
             \o ReprEscape(SubSeq(s, b + 1, Len(s)), q)

\* repr() of a string
StrRepr(s) == ReprQuote(s) \o ReprEscape(s, ReprQuote(s)) \o ReprQuote(s)

RECURSIVE PyRepr(_)
RECURSIVE ReprSeq(_)
RECURSIVE ReprItems(_)
\* the elements of a list or a tuple, and the items of a dict, as repr() writes them
ReprSeq(q) ==
    IF q = <<>> THEN ""
    ELSE PyRepr(Head(q)) \o (IF Tail(q) = <<>> THEN "" ELSE ", " \o ReprSeq(Tail(q)))
ReprItems(d) ==
    IF d = <<>> THEN ""
    ELSE StrRepr(Head(d)[1]) \o ": " \o PyRepr(Head(d)[2])
         \o (IF Tail(d) = <<>> THEN "" ELSE ", " \o ReprItems(Tail(d)))

\* repr(v)
PyRepr(v) ==
    CASE v.t = "str" -> StrRepr(v.s)
      [] v.t = "int" -> IntToStr(v.n)
      [] v.t = "none" -> "None"
      [] v.t = "list" -> "[" \o ReprSeq(v.l) \o "]"
      [] v.t = "tuple" -> "(" \o ReprSeq(v.l) \o (IF Len(v.l) = 1 THEN "," ELSE "") \o ")"
      [] v.t = "dict" -> "{" \o ReprItems(v.d) \o "}"
      [] OTHER -> v.s

\* str(v)
PyStr(v) == IF v.t = "str" THEN v.s ELSE PyRepr(v)

\* type(v).__name__
TypeName(v) ==
    CASE v.t = "str" -> "str"
      [] v.t = "int" -> "int"
      [] v.t = "none" -> "NoneType"
      [] OTHER -> v.t

\* whether int(v) returns; int(v) when it does
IntParses(v) == v.t = "int" \/ (v.t = "str" /\ \E i \in IntLiterals : IntToStr(i) = v.s)
PyInt(v) == IF v.t = "int" THEN v.n ELSE CHOOSE i \in IntLiterals : IntToStr(i) = v.s

(***************************************************************************)
(* Results of a call: a value, or the class and the str() of the exception *)
(* it raised.                                                              *)
(***************************************************************************)
NoRaise == ""

(***************************************************************************)
(* http.HTTPStatus: the members the model uses, with their phrases.        *)
(***************************************************************************)
HTTPStatusCodes == {200, 400, 404, 409, 422, 500, 503}

HTTPStatusPhrase(code) ==
    CASE code = 200 -> "OK"
      [] code = 400 -> "Bad Request"
      [] code = 404 -> "Not Found"
      [] code = 409 -> "Conflict"
      [] code = 422 -> "Unprocessable Entity"
      [] code = 500 -> "Internal Server Error"
      [] code = 503 -> "Service Unavailable"

\* http.HTTPStatus(v) returns a member (it raises ValueError otherwise)
IsHTTPStatus(v) == v.t = "int" /\ v.n \in HTTPStatusCodes

(***************************************************************************)
(* ProblemException                                                        *)
(***************************************************************************)
NoProblem ==
    [type |-> None, title |-> None, status |-> None,
     detail |-> None, instance |-> None, errors |-> None]

Returned(p) == [raised |-> NoRaise, msg |-> "", p |-> p]
Raised(e, msg) == [raised |-> e, msg |-> msg, p |-> NoProblem]

\* str() of the ValueError of http.HTTPStatus(v)
HTTPStatusMessage(v) == PyRepr(v) \o " is not a valid HTTPStatus"

\* __init__ that substitutes no default: every member is the argument as given
ProblemException_no_defaults(ptype, title, status, detail, instance, errors) ==
    Returned([type |-> ptype, title |-> title, status |-> status,
              detail |-> detail, instance |-> instance, errors |-> errors])

\* __init__ that substitutes no default for the type
ProblemException_no_type_default(ptype, title, status, detail, instance, errors) ==
    LET st == IF Truthy(status) THEN status ELSE IntV(500)
    IN  IF Truthy(title)
        THEN Returned([type |-> ptype, title |-> title, status |-> st,
                       detail |-> detail, instance |-> instance, errors |-> errors])
        ELSE IF IsHTTPStatus(st)
        THEN Returned([type |-> ptype, title |-> StrV(HTTPStatusPhrase(st.n)), status |-> st,
                       detail |-> detail, instance |-> instance, errors |-> errors])
        ELSE Raised("ValueError", HTTPStatusMessage(st))

\* ProblemException.__init__: the defaults of type, status and title
ProblemException(ptype, title, status, detail, instance, errors) ==
    LET ty == IF Truthy(ptype) THEN ptype ELSE StrV("exception:problem")
        st == IF Truthy(status) THEN status ELSE IntV(500)
    IN  IF Truthy(title)
        THEN Returned([type |-> ty, title |-> title, status |-> st,
                       detail |-> detail, instance |-> instance, errors |-> errors])
        ELSE IF IsHTTPStatus(st)
        THEN Returned([type |-> ty, title |-> StrV(HTTPStatusPhrase(st.n)), status |-> st,
                       detail |-> detail, instance |-> instance, errors |-> errors])
        ELSE Raised("ValueError", HTTPStatusMessage(st))

\* ProblemException.to_dict raises (int(self.status) of a string that is no int)
to_dict_raises(p) == Truthy(p.status) /\ ~IntParses(p.status)

\* str() of the ValueError of int(self.status)
IntMessage(v) == "invalid literal for int() with base 10: " \o PyRepr(v)

\* Response.init_headers raises: it evaluates self.status_code < 200
init_headers_raises(status_code) == status_code.t # "int"

\* str() of the TypeError of self.status_code < 200
InitHeadersMessage(status_code) ==
    "'<' not supported between instances of '" \o TypeName(status_code) \o "' and 'int'"

\* to_dict that writes the detail whatever its value
to_dict_always_detail(p) ==
    (IF Truthy(p.type) THEN << <<"type", StrV(PyStr(p.type))>> >> ELSE <<>>)
    \o (IF Truthy(p.title) THEN << <<"title", StrV(PyStr(p.title))>> >> ELSE <<>>)
    \o (IF Truthy(p.status) THEN << <<"status", IntV(PyInt(p.status))>> >> ELSE <<>>)
    \o << <<"detail", StrV(PyStr(p.detail))>> >>
    \o (IF Truthy(p.instance) THEN << <<"instance", StrV(PyStr(p.instance))>> >> ELSE <<>>)
    \o (IF Truthy(p.errors) THEN << <<"errors", p.errors>> >> ELSE <<>>)

\* to_dict that writes the status without int()
to_dict_status_as_given(p) ==
    (IF Truthy(p.type) THEN << <<"type", StrV(PyStr(p.type))>> >> ELSE <<>>)
    \o (IF Truthy(p.title) THEN << <<"title", StrV(PyStr(p.title))>> >> ELSE <<>>)
    \o (IF Truthy(p.status) THEN << <<"status", p.status>> >> ELSE <<>>)
    \o (IF Truthy(p.detail) THEN << <<"detail", StrV(PyStr(p.detail))>> >> ELSE <<>>)
    \o (IF Truthy(p.instance) THEN << <<"instance", StrV(PyStr(p.instance))>> >> ELSE <<>>)
    \o (IF Truthy(p.errors) THEN << <<"errors", p.errors>> >> ELSE <<>>)

\* ProblemException.to_dict: the body as key/value pairs in insertion order
to_dict(p) ==
    (IF Truthy(p.type) THEN << <<"type", StrV(PyStr(p.type))>> >> ELSE <<>>)
    \o (IF Truthy(p.title) THEN << <<"title", StrV(PyStr(p.title))>> >> ELSE <<>>)
    \o (IF Truthy(p.status) THEN << <<"status", IntV(PyInt(p.status))>> >> ELSE <<>>)
    \o (IF Truthy(p.detail) THEN << <<"detail", StrV(PyStr(p.detail))>> >> ELSE <<>>)
    \o (IF Truthy(p.instance) THEN << <<"instance", StrV(PyStr(p.instance))>> >> ELSE <<>>)
    \o (IF Truthy(p.errors) THEN << <<"errors", p.errors>> >> ELSE <<>>)

(***************************************************************************)
(* JSON text of a body (json.dumps with separators "," and ":").           *)
(***************************************************************************)
\* the exception classes and messages of the model
ExcClasses == {"RuntimeError", "ValueError"}
ExcMessages == {"boom", ""}

\* the lines traceback prints for the frames of exc.__traceback__, outermost first; an
\* exception that was never raised has none
NoTraceback == <<>>
RaisedTraceback == << "  File \"/app/src/main.py\", line 7, in endpoint", "    raise exc" >>
Tracebacks == {NoTraceback, RaisedTraceback}

\* exc.__context__, by its class and message: the exception that was being handled when
\* exc was raised (NoContext: None)
NoContext == [cls |-> "", msg |-> ""]
ContextOf(exc) == [cls |-> exc.cls, msg |-> exc.msg]

\* the ExceptionGroup in which the task group of a BaseHTTPMiddleware raises the
\* exception of its dispatch, and the lines of its traceback
TaskGroupContext == [cls |-> "ExceptionGroup", msg |-> "unhandled errors in a TaskGroup"]
TaskGroupTraceback ==
    << "  File \"/app/starlette/_utils.py\", line 76, in collapse_excgroups", "    yield" >>

\* raise exc, in the except clause that handles another exception: exc.__context__ is
\* that exception
raise_during(exc, handled) == [exc EXCEPT !.context = ContextOf(handled)]

\* raise exc from None: exc.__suppress_context__ is set
raise_from_None(exc) == [exc EXCEPT !.suppress_context = TRUE]

\* starlette collapse_excgroups in BaseHTTPMiddleware.__call__: the exception of the
\* dispatch is taken out of the ExceptionGroup of the task group and raised in the
\* except clause that handles the group
collapse_excgroups(exc) == [exc EXCEPT !.context = TaskGroupContext]

\* the module of an exception class that is no builtin
ExcModule(cls) ==
    CASE cls = "JSONDecodeError" -> "json.decoder"
      [] cls = "RequestValidationError" -> "fastapi.exceptions"
      [] cls = "HTTPException" -> "starlette.exceptions"
      [] cls = "ProblemException" -> "model.problem.exception"
      [] OTHER -> "builtins"

\* the name traceback prints for a class: qualified by its module unless a builtin
QualifiedName(cls) ==
    IF ExcModule(cls) = "builtins" THEN cls ELSE ExcModule(cls) \o "." \o cls

RECURSIVE FrameLines(_, _)
\* the lines of a traceback, each after the margin of the block it is printed in
FrameLines(margin, tb) ==
    IF tb = <<>> THEN "" ELSE margin \o Head(tb) \o "\n" \o FrameLines(margin, Tail(tb))

\* the traceback of one exception and its last line, class and str() of the exception
FormatOne(margin, cls, msg, tb) ==
    (IF tb = <<>> THEN ""
     ELSE margin \o "Traceback (most recent call last):\n" \o FrameLines(margin, tb))
    \o margin \o QualifiedName(cls) \o (IF msg = "" THEN "" ELSE ": " \o msg) \o "\n"

\* what traceback prints for the ExceptionGroup of a task group that holds exc
FormatGroup(group, cls, exc, tb) ==
    "  + Exception Group Traceback (most recent call last):\n"
    \o FrameLines("  | ", TaskGroupTraceback)
    \o "  | " \o group.cls \o ": " \o group.msg \o " (1 sub-exception)\n"
    \o "  +-+---------------- 1 ----------------\n"
    \o FormatOne("    | ", cls, exc.msg, tb)
    \o "    +------------------------------------\n"

DuringHandling == "\nDuring handling of the above exception, another exception occurred:\n\n"

\* "".join(traceback.format_exception(exc.__class__, exc, exc.__traceback__)): the
\* context of exc is printed before exc unless it is suppressed
format_exception(cls, exc, tb) ==
    (IF exc.context = NoContext \/ exc.suppress_context THEN ""
     ELSE IF exc.context = TaskGroupContext
     THEN FormatGroup(exc.context, cls, exc, tb) \o DuringHandling
     ELSE FormatOne("", exc.context.cls, exc.context.msg, RaisedTraceback) \o DuringHandling)
    \o FormatOne("", cls, exc.msg, tb)

\* the characters json.dumps escapes in the strings of the model
EscapedChars == {"\n", "\"", "\\"}

\* the escape of a character
EscapeChar(c) ==
    CASE c = "\n" -> "\\n"
      [] c = "\"" -> "\\\""
      [] c = "\\" -> "\\\\"

RECURSIVE JsonEscape(_)
\* the escapes of json.dumps(ensure_ascii=False)
JsonEscape(s) ==
    IF \A i \in 1..Len(s) : SubSeq(s, i, i) \notin EscapedChars THEN s
    ELSE LET b == CHOOSE i \in 1..Len(s) :
                      /\ SubSeq(s, i, i) \in EscapedChars
                      /\ \A j \in 1..(i - 1) : SubSeq(s, j, j) \notin EscapedChars
         IN  SubSeq(s, 1, b - 1) \o EscapeChar(SubSeq(s, b, b))
             \o JsonEscape(SubSeq(s, b + 1, Len(s)))

JsonString(s) == "\"" \o JsonEscape(s) \o "\""

RECURSIVE JsonValue(_)
RECURSIVE JsonSeq(_)
RECURSIVE JsonItems(_)
\* the elements of an array and the members of an object
JsonSeq(q) ==
    IF q = <<>> THEN ""
    ELSE JsonValue(Head(q)) \o (IF Tail(q) = <<>> THEN "" ELSE "," \o JsonSeq(Tail(q)))
JsonItems(d) ==
    IF d = <<>> THEN ""
    ELSE JsonString(Head(d)[1]) \o ":" \o JsonValue(Head(d)[2])
         \o (IF Tail(d) = <<>> THEN "" ELSE "," \o JsonItems(Tail(d)))

\* json.dumps of a value: a tuple is written as an array
JsonValue(v) ==
    CASE v.t = "str" -> JsonString(v.s)
      [] v.t = "int" -> IntToStr(v.n)
      [] v.t = "none" -> "null"
      [] v.t \in {"list", "tuple"} -> "[" \o JsonSeq(v.l) \o "]"
      [] v.t = "dict" -> "{" \o JsonItems(v.d) \o "}"

RECURSIVE NotSerializable(_)
RECURSIVE NotSerializableIn(_)
\* the classes of the objects in a value that json.dumps has no encoding for, in the
\* order in which the encoder meets them
NotSerializable(v) ==
    CASE v.t \in {"str", "int", "none"} -> <<>>
      [] v.t \in {"list", "tuple"} -> NotSerializableIn(v.l)
      [] v.t = "dict" -> NotSerializableIn([i \in 1..Len(v.d) |-> v.d[i][2]])
      [] OTHER -> <<v.t>>
NotSerializableIn(q) ==
    IF q = <<>> THEN <<>> ELSE NotSerializable(Head(q)) \o NotSerializableIn(Tail(q))

\* ProblemException.to_bytes raises (json.dumps meets an object it cannot encode)
to_bytes_raises(p) == NotSerializable(DictV(to_dict(p))) # <<>>

\* str() of the TypeError of json.dumps: it names the class of the first such object
NotSerializableMessage(p) ==
    "Object of type " \o Head(NotSerializable(DictV(to_dict(p)))) \o " is not JSON serializable"

\* ProblemException.to_bytes
to_bytes(p) == JsonValue(DictV(to_dict(p)))

(***************************************************************************)
(* The decoding of a body (response.json() of the client): a JSON parser   *)
(* of the texts json.dumps produces, read character by character.          *)
(***************************************************************************)
Parsed(v, rest) == [v |-> v, rest |-> rest]

\* the character a backslash escape stands for
Unescape(c) ==
    CASE c = "n" -> "\n"
      [] c = "\"" -> "\""
      [] c = "\\" -> "\\"

\* the character at position i of a text
CharAt(s, i) == SubSeq(s, i, i)

RECURSIVE BackslashesBefore(_, _)
\* the number of consecutive backslashes that end just before position i
BackslashesBefore(s, i) ==
    IF i > 1 /\ CharAt(s, i - 1) = "\\" THEN 1 + BackslashesBefore(s, i - 1) ELSE 0

\* position i holds a quote that is not escaped
IsQuoteAt(s, i) == CharAt(s, i) = "\"" /\ BackslashesBefore(s, i) % 2 = 0

RECURSIVE UnescapeAll(_)
\* the characters between the quotes of a string, the escapes undone
UnescapeAll(raw) ==
    IF \A i \in 1..Len(raw) : CharAt(raw, i) # "\\" THEN raw
    ELSE LET b == CHOOSE i \in 1..Len(raw) :
                      CharAt(raw, i) = "\\" /\ \A j \in 1..(i - 1) : CharAt(raw, j) # "\\"
         IN  SubSeq(raw, 1, b - 1) \o Unescape(CharAt(raw, b + 1))
             \o UnescapeAll(SubSeq(raw, b + 2, Len(raw)))

\* a string, from its opening quote to its closing quote
ParseString(s) ==
    LET close == CHOOSE i \in 2..Len(s) :
                     IsQuoteAt(s, i) /\ \A j \in 2..(i - 1) : ~IsQuoteAt(s, j)
    IN  Parsed(UnescapeAll(SubSeq(s, 2, close - 1)), SubSeq(s, close + 1, Len(s)))

DigitChars == {"0", "1", "2", "3", "4", "5", "6", "7", "8", "9"}
DigitValue(c) == CHOOSE d \in 0..9 : Digit(d) = c

RECURSIVE ScanDigits(_, _)
\* a number, from its first digit
ScanDigits(s, acc) ==
    IF s # "" /\ Head(s) \in DigitChars
    THEN ScanDigits(Tail(s), acc * 10 + DigitValue(Head(s)))
    ELSE Parsed(acc, s)

RECURSIVE ParseValue(_)
RECURSIVE ParseItems(_, _)
RECURSIVE ParseMembers(_, _)
\* the elements of an array, from after its opening bracket
ParseItems(s, acc) ==
    IF Head(s) = "]" THEN Parsed(acc, Tail(s))
    ELSE IF Head(s) = "," THEN ParseItems(Tail(s), acc)
    ELSE LET e == ParseValue(s)
         IN  ParseItems(e.rest, Append(acc, e.v))

\* the members of an object, from after its opening brace
ParseMembers(s, acc) ==
    IF Head(s) = "}" THEN Parsed(acc, Tail(s))
    ELSE IF Head(s) = "," THEN ParseMembers(Tail(s), acc)
    ELSE LET k == ParseString(s)
             v == ParseValue(Tail(k.rest))
         IN  ParseMembers(v.rest, Append(acc, <<k.v, v.v>>))

ParseValue(s) ==
    IF Head(s) = "\"" THEN LET r == ParseString(s) IN Parsed(StrV(r.v), r.rest)
    ELSE IF Head(s) = "[" THEN LET r == ParseItems(Tail(s), <<>>) IN Parsed(ListV(r.v), r.rest)
    ELSE IF Head(s) = "{" THEN LET r == ParseMembers(Tail(s), <<>>) IN Parsed(DictV(r.v), r.rest)
    ELSE IF Head(s) = "n" THEN Parsed(None, SubSeq(s, 5, Len(s)))
    ELSE LET r == ScanDigits(s, 0) IN Parsed(IntV(r.v), r.rest)

\* json.loads of a body: its key/value pairs in the order of the text
json_loads(text) == ParseValue(text).v.d

\* the keys of a decoded body, and the value of a key
BodyKeys(d) == {d[i][1] : i \in 1..Len(d)}
BodyGet(d, k) == (CHOOSE kv \in {d[i] : i \in 1..Len(d)} : kv[1] = k)[2]

(***************************************************************************)
(* The content handed to ProblemResponse: what isinstance() says of it     *)
(* (kinds) and the attributes each kind carries.                           *)
(***************************************************************************)
NoContent ==
    [kinds |-> {}, pe |-> NoProblem, data |-> <<>>, status_code |-> None,
     detail |-> None, verrors |-> <<>>, cls |-> "", msg |-> "", tb |-> NoTraceback,
     context |-> NoContext, suppress_context |-> FALSE]

\* str(exc) of an HTTPException
HTTPExceptionStr(code, detail) == IntToStr(code.n) \o ": " \o PyStr(detail)

\* to_dict of an ErrorLogRecord that keeps the fields with an empty value
ErrorLogRecord_to_dict_keeps_empty(exception_type, exception_message, exception_stack_trace) ==
    DictV(<< <<"exception_type", StrV(exception_type)>>,
             <<"exception_message", StrV(exception_message)>>,
             <<"exception_stack_trace", StrV(exception_stack_trace)>> >>)

\* BaseLogRecord.to_dict of an ErrorLogRecord: the fields with an empty value are dropped
ErrorLogRecord_to_dict(exception_type, exception_message, exception_stack_trace) ==
    DictV((IF exception_type # ""
           THEN << <<"exception_type", StrV(exception_type)>> >> ELSE <<>>)
          \o (IF exception_message # ""
              THEN << <<"exception_message", StrV(exception_message)>> >> ELSE <<>>)
          \o (IF exception_stack_trace # ""
              THEN << <<"exception_stack_trace", StrV(exception_stack_trace)>> >>
              ELSE <<>>))

(***************************************************************************)
(* ProblemResponse                                                         *)
(***************************************************************************)
\* the parameters of ProblemException.__init__
InitParams == {"_type", "title", "status", "detail", "instance", "errors"}

\* a dict is the sequence of its (key, value) items, in the order of their insertion
Keys(data) == {data[i][1] : i \in 1..Len(data)}

\* str() of the TypeError of ProblemException(**data): it names the first key of the
\* dict that is no parameter
UnexpectedKeywordMessage(data) ==
    LET first == CHOOSE i \in 1..Len(data) :
                    /\ data[i][1] \notin InitParams
                    /\ \A j \in 1..(i - 1) : data[j][1] \in InitParams
    IN  "ProblemException.__init__() got an unexpected keyword argument '"
        \o data[first][1] \o "'"
Get(data, k) ==
    IF k \in Keys(data) THEN data[CHOOSE i \in 1..Len(data) : data[i][1] = k][2] ELSE None

\* ProblemResponse.as_dict: ProblemException(**data), then the instance
as_dict(data, path) ==
    IF ~(Keys(data) \subseteq InitParams)
    THEN Raised("TypeError", UnexpectedKeywordMessage(data))
    ELSE LET r == ProblemException(Get(data, "_type"), Get(data, "title"),
                                   Get(data, "status"), Get(data, "detail"),
                                   Get(data, "instance"), Get(data, "errors"))
         IN  IF r.raised # NoRaise THEN r
             ELSE IF ~Truthy(r.p.instance)
             THEN Returned([r.p EXCEPT !.instance = StrV(path)])
             ELSE r

\* as_http_exception that leaves the instance of the record unset
as_http_exception_no_instance(exc, path, errors) ==
    ProblemException(StrV("exception:http"), None, exc.status_code, exc.detail,
                     None, IF Truthy(errors) THEN errors ELSE ListV(<<>>))

\* ProblemResponse.as_http_exception
as_http_exception(exc, path, errors) ==
    ProblemException(StrV("exception:http"), None, exc.status_code, exc.detail,
                     StrV(path), IF Truthy(errors) THEN errors ELSE ListV(<<>>))

ValidationDetail ==
    "One or more user-provided parameters are invalid, please see errors for details."

\* ProblemResponse.as_request_validation_error
as_request_validation_error(exc, path) ==
    ProblemException(StrV("exception:validation"), StrV("Validation Error"), IntV(422),
                     StrV(ValidationDetail), StrV(path), ListV(exc.verrors))

UncaughtDetail == "Uncaught exception occurred while processing the request."

\* ProblemResponse.as_uncaught_exception
as_uncaught_exception(exc, path) ==
    ProblemException(StrV("exception:uncaught"), None, IntV(500), StrV(UncaughtDetail),
                     StrV(path),
                     ListV(<< ErrorLogRecord_to_dict(exc.cls, exc.msg,
                                                     format_exception(exc.cls, exc,
                                                                      exc.tb)) >>))

UnexpectedDetail == "Got unexpected content when trying to generate error response"

\* render that tests HTTPException before ProblemException and dict
render_dispatch_http_first(content, path) ==
    IF "HTTPException" \in content.kinds
    THEN [branch |-> "HTTPException", r |-> as_http_exception(content, path, None)]
    ELSE IF "ProblemException" \in content.kinds
    THEN [branch |-> "ProblemException", r |-> Returned(content.pe)]
    ELSE IF "dict" \in content.kinds
    THEN [branch |-> "dict", r |-> as_dict(content.data, path)]
    ELSE IF "RequestValidationError" \in content.kinds
    THEN [branch |-> "RequestValidationError",
          r |-> as_request_validation_error(content, path)]
    ELSE IF "Exception" \in content.kinds
    THEN [branch |-> "Exception", r |-> as_uncaught_exception(content, path)]
    ELSE [branch |-> "else",
          r |-> ProblemException(None, None, IntV(500), StrV(UnexpectedDetail), StrV(path),
                                 ListV(<< DictV(<< <<"content", StrV(content.msg)>> >>) >>))]

\* render that fills the instance of a ProblemException with the request path
render_dispatch_fills_instance(content, path) ==
    IF "ProblemException" \in content.kinds
    THEN [branch |-> "ProblemException",
          r |-> Returned([content.pe EXCEPT
                             !.instance = IF Truthy(@) THEN @ ELSE StrV(path)])]
    ELSE IF "dict" \in content.kinds
    THEN [branch |-> "dict", r |-> as_dict(content.data, path)]
    ELSE IF "HTTPException" \in content.kinds
    THEN [branch |-> "HTTPException", r |-> as_http_exception(content, path, None)]
    ELSE IF "RequestValidationError" \in content.kinds
    THEN [branch |-> "RequestValidationError",
          r |-> as_request_validation_error(content, path)]
    ELSE IF "Exception" \in content.kinds
    THEN [branch |-> "Exception", r |-> as_uncaught_exception(content, path)]
    ELSE [branch |-> "else",
          r |-> ProblemException(None, None, IntV(500), StrV(UnexpectedDetail), StrV(path),
                                 ListV(<< DictV(<< <<"content", StrV(content.msg)>> >>) >>))]

\* the isinstance() chain of ProblemResponse.render: the branch taken and its problem
render_dispatch(content, path) ==
    IF "ProblemException" \in content.kinds
    THEN [branch |-> "ProblemException", r |-> Returned(content.pe)]
    ELSE IF "dict" \in content.kinds
    THEN [branch |-> "dict", r |-> as_dict(content.data, path)]
    ELSE IF "HTTPException" \in content.kinds
    THEN [branch |-> "HTTPException", r |-> as_http_exception(content, path, None)]
    ELSE IF "RequestValidationError" \in content.kinds
    THEN [branch |-> "RequestValidationError",
          r |-> as_request_validation_error(content, path)]
    ELSE IF "Exception" \in content.kinds
    THEN [branch |-> "Exception", r |-> as_uncaught_exception(content, path)]
    ELSE [branch |-> "else",
          r |-> ProblemException(None, None, IntV(500), StrV(UnexpectedDetail), StrV(path),
                                 ListV(<< DictV(<< <<"content", StrV(content.msg)>> >>) >>))]

NoResponse ==
    [raised |-> NoRaise, msg |-> "", branch |-> "", status_code |-> None, media_type |-> "",
     problem |-> NoProblem, body |-> ""]

\* ProblemResponse.render: status_code and problem are set, the bytes returned
render(content, path) ==
    LET d == render_dispatch(content, path)
    IN  IF d.r.raised # NoRaise
        THEN [NoResponse EXCEPT !.raised = d.r.raised, !.msg = d.r.msg, !.branch = d.branch]
        ELSE IF to_dict_raises(d.r.p)
        THEN [NoResponse EXCEPT !.raised = "ValueError", !.msg = IntMessage(d.r.p.status),
                                !.branch = d.branch]
        ELSE IF to_bytes_raises(d.r.p)
        THEN [NoResponse EXCEPT !.raised = "TypeError", !.msg = NotSerializableMessage(d.r.p),
                                !.branch = d.branch]
        ELSE [raised |-> NoRaise, msg |-> "", branch |-> d.branch,
              status_code |-> d.r.p.status,
              media_type |-> "application/problem+json", problem |-> d.r.p,
              body |-> to_bytes(d.r.p)]

\* Response.__init__ after self.body = self.render(content): self.init_headers(headers)
\* compares the status code with 200
init_headers(r) ==
    IF r.raised = NoRaise /\ init_headers_raises(r.status_code)
    THEN [NoResponse EXCEPT !.raised = "TypeError",
                            !.msg = InitHeadersMessage(r.status_code), !.branch = r.branch]
    ELSE r

\* ProblemResponse(request, exc): Response.__init__ renders the content, then sets the
\* headers
ProblemResponse(path, exc) == init_headers(render(exc, path))

\* ProblemException.to_response without its status_code argument: the response keeps
\* the default status of Response
to_response_default_status(p) ==
    IF to_dict_raises(p)
    THEN [NoResponse EXCEPT !.raised = "ValueError", !.msg = IntMessage(p.status),
                            !.branch = "to_response"]
    ELSE IF to_bytes_raises(p)
    THEN [NoResponse EXCEPT !.raised = "TypeError", !.msg = NotSerializableMessage(p),
                            !.branch = "to_response"]
    ELSE [raised |-> NoRaise, msg |-> "", branch |-> "to_response",
          status_code |-> IntV(200),
          media_type |-> "application/problem+json", problem |-> NoProblem,
          body |-> to_bytes(p)]

\* ProblemException.to_response: a plain Response of the bytes, with the problem media
\* type and the status of the record
to_response(p) ==
    IF to_dict_raises(p)
    THEN [NoResponse EXCEPT !.raised = "ValueError", !.msg = IntMessage(p.status),
                            !.branch = "to_response"]
    ELSE IF to_bytes_raises(p)
    THEN [NoResponse EXCEPT !.raised = "TypeError", !.msg = NotSerializableMessage(p),
                            !.branch = "to_response"]
    ELSE init_headers([raised |-> NoRaise, msg |-> "", branch |-> "to_response",
                       status_code |-> p.status,
                       media_type |-> "application/problem+json", problem |-> NoProblem,
                       body |-> to_bytes(p)])

\* from_domain_exception whose match statement has the default case only
domain_status_default_only(exc) == 500

\* the match statement of from_domain_exception
domain_status(exc) ==
    IF "ValidationFailureError" \in exc.kinds THEN 400
    ELSE IF "NotFoundError" \in exc.kinds THEN 404
    ELSE IF "ConflictValueError" \in exc.kinds THEN 409
    ELSE 500

\* ProblemResponse.from_domain_exception: the record it constructs and the response
\* of its to_response()
from_domain_exception(exc, instance) ==
    LET r == ProblemException(None, None, IntV(domain_status(exc)), StrV(exc.msg),
                              instance, None)
    IN  [record |-> r, response |-> to_response(r.p)]

(***************************************************************************)
(* Inputs.                                                                 *)
(***************************************************************************)
Paths == {"/widgets/1", "/widgets/9"}

\* the parameter defaults of endpoints/generic_endpoint.py: typing.Annotated aliases
\* (objects of the class _AnnotatedAlias), with the text of their repr()
x_correlation_id == ObjV("_AnnotatedAlias", "typing.Annotated[str, Header(PydanticUndefined)]")
x_source == ObjV("_AnnotatedAlias", "typing.Annotated[typing.Optional[str], Header(None)]")

\* the violation fastapi reports for a parameter whose value is no string
StringTypeError(name, input) ==
    DictV(<< <<"type", StrV("string_type")>>, <<"loc", TupleV(<<StrV("query"), StrV(name)>>)>>,
             <<"msg", StrV("Input should be a valid string")>>, <<"input", input>> >>)

\* the entries of RequestValidationError.errors(): the entry of validation_error_example,
\* the entry for a body without its required name, and the entry for a parameter whose
\* value is the alias that is its default
ViolationEntries ==
    { DictV(<< <<"loc", ListV(<<StrV("body"), StrV("some_type")>>)>>,
               <<"msg", StrV("Input should be one of 'value_a', 'value_b', 'value_c' or 'value_d'")>>,
               <<"type", StrV("enum")>> >>),
      DictV(<< <<"type", StrV("missing")>>,
               <<"loc", TupleV(<<StrV("body"), StrV("name")>>)>>,
               <<"msg", StrV("Field required")>>,
               <<"input", DictV(<< <<"description", StrV("Missing name field.")>> >>)>> >>),
      StringTypeError("x_correlation_id", x_correlation_id) }

RECURSIVE SeqsUpTo(_, _)
\* the sequences over S of length at most n
SeqsUpTo(S, n) ==
    IF n = 0 THEN {<<>>}
    ELSE LET shorter == SeqsUpTo(S, n - 1)
         IN  shorter \cup {Append(q, x) : q \in shorter, x \in S}

\* the traceback, context and suppression of an exception: never raised; raised;
\* raised through a BaseHTTPMiddleware, with and without `from None` at its raise
ExcChains ==
    {[tb |-> NoTraceback, context |-> NoContext, suppress_context |-> FALSE],
     [tb |-> RaisedTraceback, context |-> NoContext, suppress_context |-> FALSE],
     [tb |-> RaisedTraceback, context |-> TaskGroupContext, suppress_context |-> FALSE],
     [tb |-> RaisedTraceback, context |-> TaskGroupContext, suppress_context |-> TRUE]}

\* exceptions that are none of the recognised kinds
UncaughtFaults ==
    {[NoContent EXCEPT !.kinds = {"Exception"}, !.cls = c, !.msg = m, !.tb = ch.tb,
                       !.context = ch.context, !.suppress_context = ch.suppress_context] :
        c \in ExcClasses, m \in ExcMessages, ch \in ExcChains}

\* ProblemException.__str__
ProblemStr(p) == "Problem:<" \o PyRepr(DictV(to_dict(p))) \o ">"

\* str(exc) of a RequestValidationError: str() of its args, the list of errors
ValidationStr(q) == PyRepr(ListV(q))

\* starlette HTTPException(status_code, detail)
HTTPFaults ==
    {[NoContent EXCEPT !.kinds = {"HTTPException", "Exception"}, !.cls = "HTTPException",
                       !.status_code = IntV(c), !.detail = StrV(d),
                       !.msg = HTTPExceptionStr(IntV(c), StrV(d))] :
        c \in {0, 404, 503, 999}, d \in {"Resource not found.", ""}}

\* fastapi RequestValidationError(errors)
ValidationFaults ==
    {[NoContent EXCEPT !.kinds = {"RequestValidationError", "Exception"},
                       !.cls = "RequestValidationError", !.verrors = q,
                       !.msg = ValidationStr(q)] :
        q \in SeqsUpTo(ViolationEntries, MaxErrors)}

\* the ProblemException objects application code can construct
ConstructedProblems ==
    LET results ==
          {ProblemException(ty, ti, st, de, ins, er) :
              ty \in {None, StrV("exception:custom")},
              ti \in {None, StrV("Teapot")},
              st \in {None, IntV(404), IntV(999)},
              de \in {None, StrV("Out of tea.")},
              ins \in {None, StrV("/other")},
              er \in {None, ListV(<< DictV(<< <<"code", StrV("E1")>> >>) >>)}}
    IN  {r.p : r \in {x \in results : x.raised = NoRaise}}

ProblemFaults ==
    {[NoContent EXCEPT !.kinds = {"ProblemException", "Exception"},
                       !.cls = "ProblemException", !.pe = p, !.msg = ProblemStr(p)] :
        p \in ConstructedProblems}

\* the record of an exception that derives from ProblemException among others
MixedProblem ==
    [NoProblem EXCEPT !.type = StrV("exception:custom"), !.title = StrV("Teapot"),
                      !.status = IntV(409)]

\* str(exc) of a class that derives from several of the recognised classes, its bases in
\* the order ProblemException, HTTPException, RequestValidationError: the __str__ of
\* the first base that defines one
MixedStr(k) ==
    IF "ProblemException" \in k THEN ProblemStr(MixedProblem)
    ELSE HTTPExceptionStr(IntV(404), StrV("Resource not found."))

\* classes that derive from several of the recognised exception classes
MixedFaults ==
    {[NoContent EXCEPT !.kinds = k \cup {"Exception"}, !.cls = "MixedError",
                       !.pe = MixedProblem,
                       !.status_code = IntV(404), !.detail = StrV("Resource not found."),
                       !.verrors = q, !.msg = MixedStr(k)] :
        k \in {{"ProblemException", "HTTPException"},
               {"ProblemException", "RequestValidationError"},
               {"HTTPException", "RequestValidationError"},
               {"ProblemException", "HTTPException", "RequestValidationError"}},
        q \in SeqsUpTo(ViolationEntries, MaxErrors) \ {<<>>}}

\* the exceptions an ASGI app can raise
Faults == UncaughtFaults \cup HTTPFaults \cup ValidationFaults \cup ProblemFaults
          \cup MixedFaults

\* the items a dict has for a key (none: the key is absent)
DictChoices(k) ==
    CASE k = "_type" -> {<<>>, << <<k, StrV("exception:custom")>> >>}
      [] k = "title" -> {<<>>, << <<k, StrV("Teapot")>> >>}
      [] k = "status" -> {<<>>, << <<k, IntV(404)>> >>, << <<k, IntV(999)>> >>,
                          << <<k, StrV("404")>> >>}
      [] k = "detail" -> {<<>>, << <<k, StrV("Out of tea.")>> >>}
      [] k = "instance" -> {<<>>, << <<k, StrV("/other")>> >>, << <<k, StrV("")>> >>}
      [] k = "type" -> {<<>>, << <<k, StrV("exception:custom")>> >>}
      [] k = "foo" -> {<<>>, << <<k, StrV("bar")>> >>}

\* the dicts of the model: the keys that are parameters in the order of the signature,
\* the two other keys in either order, written before or after the parameters
DictContents ==
    {[NoContent EXCEPT !.kinds = {"dict"}, !.data = data] :
        data \in UNION {{known \o f \o g, known \o g \o f, f \o g \o known, g \o f \o known} :
                           known \in {a \o b \o c \o d \o e :
                                         a \in DictChoices("_type"),
                                         b \in DictChoices("title"),
                                         c \in DictChoices("status"),
                                         d \in DictChoices("detail"),
                                         e \in DictChoices("instance")},
                           f \in DictChoices("type"), g \in DictChoices("foo")}}

\* content that is neither a dict nor an exception (its str() in msg)
OtherContents == {[NoContent EXCEPT !.msg = m] : m \in {"oops", "None"}}

Contents == Faults \cup DictContents \cup OtherContents

\* the arguments application code gives ProblemException(...); None: not supplied
ConstructorArgs ==
    [type : {None, StrV("exception:custom")},
     title : {None, StrV("Teapot")},
     status : {None, IntV(0), IntV(404), IntV(999), StrV("404")},
     detail : {None, StrV("Out of tea."), IntV(404)},
     instance : {None, StrV("/other")},
     errors : {None, ListV(<< DictV(<< <<"code", StrV("E1")>> >>) >>)}]

\* the empty values a field can be set to after construction
EmptyValues(f) ==
    IF f = "status" THEN {None, IntV(0)}
    ELSE IF f = "errors" THEN {None, ListV(<<>>)}
    ELSE {None, StrV("")}

Fields == {"type", "title", "status", "detail", "instance", "errors"}

\* the exceptions of the domain layer (repository.domain.exceptions) and others
DomainClasses == {"ValidationFailureError", "NotFoundError", "ConflictValueError"}
DomainMessages == {"Widget 9 not found.", ""}
DomainFaults ==
    {[NoContent EXCEPT !.kinds = {c, "Exception"}, !.cls = c, !.msg = m] :
        c \in DomainClasses, m \in DomainMessages}
    \cup {[NoContent EXCEPT !.kinds = {"Exception"}, !.cls = c, !.msg = m] :
            c \in ExcClasses, m \in DomainMessages}
    \cup {[NoContent EXCEPT !.kinds = {"NotFoundError", "ConflictValueError", "Exception"},
                            !.cls = "MixedError", !.msg = m] : m \in DomainMessages}

\* the instance identifiers handed to from_domain_exception
Identifiers == {StrV("/widgets/9"), StrV("urn:widget:9")}

(***************************************************************************)
(* State.                                                                  *)
(***************************************************************************)
VARIABLES
    scope_type,        \* scope["type"] of the call
    path,              \* the request path (request.url.path)
    pre_hooks,         \* the registered pre-hooks, in registration order
    post_hooks,        \* the registered post-hooks, in registration order
    pc,                \* where UnhandledExceptionsMiddleware.__call__ stands
    response_started,  \* the flag of __call__
    app_calls,         \* the calls of the wrapped app: the send it was given
    app_phase,         \* what the wrapped app has sent so far
    app_bodies,        \* the body messages the wrapped app has sent
    app_exc,           \* the exception the wrapped app raised
    transport,         \* the messages passed to the transport's send, in order
    handler_calls,     \* the calls of the exception handler: their arguments
    hooks_done,        \* the hooks of the running exec_hooks that have completed
    hook_awaited,      \* an asynchronous hook is suspended
    hook_log,          \* the events of the handler, in order
    response,          \* the ProblemResponse the handler built
    leaving,           \* how __call__ ended
    content,           \* the content of a direct ProblemResponse(request, content)
    rendered,          \* its result
    origin,            \* the call of application code that is followed
    args,              \* the arguments of that call
    record,            \* the ProblemException it constructed
    sets,              \* the fields set after construction, with their values
    returned,          \* what to_bytes() or to_response() returned
    kill_switch_config_path, \* os.environ["KILL_SWITCH_CONFIG_PATH"]
    exclude_paths,     \* KillSwitchMiddleware.exclude_paths
    ks_pc,             \* where KillSwitchMiddleware.dispatch stands
    ks_path,           \* request.url.path of the request in dispatch
    ks_config,         \* what the file KILL_SWITCH_CONFIG_PATH names gave as dispatch decided
    ks_downstream,     \* the calls of call_next for the request
    ks_response,       \* the response dispatch is to return
    ks_log,            \* the requests answered so far, in order
    secret_cache,      \* SecretManager._secret_cache
    now,               \* time.time(), in seconds
    backend,           \* the secret versions the Secret Manager service holds
    ttl_env,           \* os.environ["GCP_SECRET_MANAGER_CACHE_TTL_SECS"]
    sm_calls,          \* the calls of get_secret so far
    sm_threads,        \* the call of get_secret each thread is in, and its local variables
    sm_result,         \* how the call of get_secret that ended last ended
    os_environ,        \* os.environ, but for the two variables held above
    dotenv_files,      \* the dotenv files under environment/, by path
    compulsory_variables, \* the argument of environment_loader.init
    env_result,        \* how environment_loader.init ended
    st_depth,          \* the layer of the application's stack the request stands in
    st_dir,            \* whether the request descends or its outcome ascends
    st_result,         \* the outcome that ascends: a response or an exception
    st_header,         \* the x-request-id header of the request
    st_request_id,     \* request_id of HttpLoggingMiddleware.dispatch
    st_log,            \* the records HttpLoggingMiddleware logged
    st_route_calls,    \* the calls of the route handler
    st_sent            \* the x-request-id headers of the responses the wrapped app started

mwVars ==
    <<scope_type, pre_hooks, post_hooks, pc, response_started, app_calls, app_phase,
      app_bodies, app_exc, transport, handler_calls, hooks_done, hook_awaited, hook_log,
      response, leaving>>
renderVars == <<content, rendered>>
recordVars == <<origin, args, record, sets, returned>>
killVars ==
    <<kill_switch_config_path, exclude_paths, ks_pc, ks_path, ks_config, ks_downstream,
      ks_response, ks_log>>
secretVars == <<secret_cache, now, backend, ttl_env, sm_calls, sm_threads, sm_result>>
envVars == <<os_environ, dotenv_files, compulsory_variables, env_result>>
stackVars ==
    <<st_depth, st_dir, st_result, st_header, st_request_id, st_log, st_route_calls,
      st_sent>>
extVars == <<secretVars, envVars, stackVars>>
vars == <<mwVars, path, renderVars, recordVars, killVars, extVars>>

ScopeTypes == {"http", "websocket", "lifespan"}

\* a hook: its registration number and whether it is a coroutine function
Hook(id, is_async) == [id |-> id, is_async |-> is_async]

\* the hook lists of n hooks, numbered in registration order
HookLists(n) == {[i \in 1..n |-> Hook(i, f[i])] : f \in [1..n -> BOOLEAN]}
HookConfigs == UNION {HookLists(n) : n \in 0..MaxHooks}

\* exceptions raised by the collaborators of the middleware
\* an exception that was raised while no other exception was being handled
Error(cls, msg) ==
    [NoContent EXCEPT !.kinds = {"Exception"}, !.cls = cls, !.msg = msg,
                      !.tb = RaisedTraceback]
HookError == Error("HookError", "hook failed")
SendError == Error("OSError", "send failed")

NotLeft == [how |-> "", exc |-> NoContent]
Returns == [how |-> "return", exc |-> NoContent]
Raises(exc) == [how |-> "raise", exc |-> exc]

Message(type, by, status) == [type |-> type, by |-> by, status |-> status]

\* the messages of an app, by the type of its scope
StartType(st) ==
    CASE st = "http" -> "http.response.start"
      [] st = "websocket" -> "websocket.accept"
      [] st = "lifespan" -> "lifespan.startup.complete"
BodyType(st) ==
    CASE st = "http" -> "http.response.body"
      [] st = "websocket" -> "websocket.send"
      [] st = "lifespan" -> "lifespan.shutdown.complete"

Event(phase, id, ev, request, exc, resp) ==
    [phase |-> phase, id |-> id, ev |-> ev, request |-> request, exc |-> exc,
     response |-> resp]

IdleRender == content = NoContent /\ rendered = NoResponse

\* no ProblemException constructed yet
Unbuilt == Raised("unbuilt", "")

IdleRecord ==
    /\ args = NoProblem
    /\ record = Unbuilt
    /\ sets = <<>>
    /\ returned = NoResponse

\* the exclude_paths main.py gives KillSwitchMiddleware
MainExcludePaths == <<"/docs", "/redoc", "/openapi.json">>

\* KillSwitchMiddleware has seen no request
\* tests/integration/test_killswitch_endpoint.py: the resource whose flag is set
CONFIG_ENABLED_JSON == "tests/resources/kill_switch_config_enabled.json"

\* tests/integration/conftest.py: a text that is the path of no file
CONFIG_DISABLED_JSON == "path for kill_switch_config_disabled.json"

\* tests/unit/conftest.py: the resource whose flag is not set
UnitConfigDisabledJson == "tests/resources/kill_switch_config_disabled.json"

\* a file that holds no JSON
ConfigInvalidJson == "tests/resources/kill_switch_config_invalid.json"

\* the values KILL_SWITCH_CONFIG_PATH takes
ConfigPaths ==
    {CONFIG_ENABLED_JSON, CONFIG_DISABLED_JSON, UnitConfigDisabledJson, ConfigInvalidJson}

\* the file a path names: a configuration whose flag is set or not set, a file that
\* holds no JSON, or no file
ConfigFile(file) ==
    CASE file = CONFIG_ENABLED_JSON -> "enabled"
      [] file = UnitConfigDisabledJson -> "disabled"
      [] file = ConfigInvalidJson -> "invalid"
      [] OTHER -> "missing"

\* no configuration was loaded
NoConfig == [raised |-> NoRaise, msg |-> "", enabled |-> FALSE]

\* KillSwitchConfig.load() for the path the environment gives: open() raises for a path
\* that names no file and json.load() for a file that holds no JSON
KillSwitchConfig_load_from(file) ==
    CASE ConfigFile(file) = "missing" ->
            [raised |-> "FileNotFoundError",
             msg |-> "[Errno 2] No such file or directory: " \o StrRepr(file),
             enabled |-> FALSE]
      [] ConfigFile(file) = "invalid" ->
            [raised |-> "JSONDecodeError",
             msg |-> "Expecting value: line 1 column 1 (char 0)", enabled |-> FALSE]
      [] OTHER -> [raised |-> NoRaise, msg |-> "", enabled |-> ConfigFile(file) = "enabled"]

IdleKillSwitch ==
    /\ exclude_paths = MainExcludePaths
    /\ ks_pc = "idle"
    /\ ks_path = ""
    /\ ks_config = NoConfig
    /\ ks_downstream = 0
    /\ ks_response = NoResponse
    /\ ks_log = <<>>

\* the secrets of the model
SecretNames == {"db-password", "api-key"}

\* the payload of the version that follows a version of a secret: "s3cr3t" is rotated once
NextVersion(value) == IF value = "s3cr3t" THEN "rotated" ELSE value

\* _secret_cache = {}
EmptyCache == [n \in {} |-> <<"", 0>>]

\* the threads that call get_secret
SecretThreads == {"t1", "t2"}

\* a thread outside get_secret: the locals of the call, the cache as it was when the call
\* began and the names other calls stored under since then
NoSecretCall ==
    [pc |-> "idle", secret_name |-> "", current_time |-> 0, secret_value |-> "",
     cache_timestamp |-> 0, cache_before |-> EmptyCache, stored_meanwhile |-> {}]

\* no call of get_secret has ended
NoSecretResult ==
    [name |-> "", current_time |-> 0, raised |-> "", value |-> "", fetched |-> 0,
     cache_before |-> EmptyCache, stored_meanwhile |-> {}]

\* SecretManager before its first call
IdleSecretManager ==
    /\ secret_cache = EmptyCache
    /\ now = 0
    /\ backend = [n \in SecretNames |-> "s3cr3t"]
    /\ ttl_env = None
    /\ sm_calls = 0
    /\ sm_threads = [t \in SecretThreads |-> NoSecretCall]
    /\ sm_result = NoSecretResult

\* a mapping without keys: {}
EmptyMapping == [k \in {} |-> ""]

\* environment_loader.init has not been called
NoEnvResult == [how |-> "", cls |-> "", msg |-> "", loaded |-> <<>>, environ |-> EmptyMapping]

\* the process before environment_loader.init
IdleEnvironment ==
    /\ os_environ = EmptyMapping
    /\ dotenv_files = EmptyMapping
    /\ compulsory_variables = <<>>
    /\ env_result = NoEnvResult

\* nothing ascends
NoResult == [kind |-> "", response |-> NoResponse, exc |-> NoContent, request_id |-> None]

\* the application has received no request
IdleStack ==
    /\ st_depth = 0
    /\ st_dir = "idle"
    /\ st_result = NoResult
    /\ st_header = None
    /\ st_request_id = None
    /\ st_log = <<>>
    /\ st_route_calls = 0
    /\ st_sent = <<>>

IdleExt == IdleSecretManager /\ IdleEnvironment /\ IdleStack

Init ==
    /\ scope_type \in ScopeTypes
    /\ path \in Paths
    /\ pre_hooks \in HookConfigs
    /\ post_hooks \in HookConfigs
    /\ pc = "call"
    /\ response_started = FALSE
    /\ app_calls = <<>>
    /\ app_phase = "init"
    /\ app_bodies = 0
    /\ app_exc = NoContent
    /\ transport = <<>>
    /\ handler_calls = <<>>
    /\ hooks_done = 0
    /\ hook_awaited = FALSE
    /\ hook_log = <<>>
    /\ response = NoResponse
    /\ leaving = NotLeft
    /\ IdleRender
    /\ origin = "middleware"
    /\ IdleRecord
    /\ kill_switch_config_path = UnitConfigDisabledJson
    /\ IdleKillSwitch
    /\ IdleExt

\* the exceptions the wrapped app raises in the model
AppFaults ==
    {f \in UncaughtFaults : /\ f.cls = "RuntimeError"
                            /\ f.tb = RaisedTraceback
                            /\ f.context = NoContext}
    \cup {f \in HTTPFaults : f.status_code.n \in {404, 999} /\ f.detail.s # ""}
    \cup {f \in ValidationFaults : Len(f.verrors) = MaxErrors}
    \cup {f \in ProblemFaults : /\ f.pe.type.s = "exception:custom"
                                /\ f.pe.title.s = "Teapot"
                                /\ f.pe.status.n = 404
                                /\ f.pe.detail = None
                                /\ f.pe.errors = None}
    \cup {f \in MixedFaults : Cardinality(f.kinds) = 4}

(***************************************************************************)
(* UnhandledExceptionsMiddleware.__call__                                  *)
(***************************************************************************)
\* Call without the test of scope["type"]: every scope is wrapped
Call_always_wrapped ==
    /\ pc = "call"
    /\ app_calls' = Append(app_calls, "_send")
    /\ pc' = "app"
    /\ UNCHANGED <<scope_type, path, pre_hooks, post_hooks, response_started, app_phase,
                   app_bodies, app_exc, transport, handler_calls, hooks_done,
                   hook_awaited, hook_log, response, leaving, renderVars, recordVars, killVars, extVars>>

\* __call__ up to the call of the wrapped app: with the original send for a scope
\* that is not http, with _send otherwise
Call ==
    /\ pc = "call"
    /\ app_calls' = Append(app_calls, IF scope_type # "http" THEN "send" ELSE "_send")
    /\ pc' = "app"
    /\ UNCHANGED <<scope_type, path, pre_hooks, post_hooks, response_started, app_phase,
                   app_bodies, app_exc, transport, handler_calls, hooks_done,
                   hook_awaited, hook_log, response, leaving, renderVars, recordVars, killVars, extVars>>

\* _send that never records the start of the response
_send_forgets(message, started) == started

\* _send: response_started after the message was seen
_send(message, started) ==
    IF message.type = "http.response.start" THEN TRUE ELSE started

\* the send the running app holds
AppSendName == app_calls[Len(app_calls)]

\* the app's exception reaches the except clause of __call__ (http), or leaves the
\* middleware as it is (any other scope)
AppRaised(exc) ==
    /\ app_exc' = exc
    /\ IF AppSendName = "_send"
       THEN pc' = "except" /\ leaving' = leaving
       ELSE pc' = "done" /\ leaving' = Raises(exc)

\* AppSend with a _send that sets response_started only after the transport's send has
\* accepted the message
AppSend_flag_after_send ==
    /\ pc = "app"
    /\ \/ app_phase = "init"
       \/ app_phase = "started" /\ app_bodies < MaxBodyMsgs
    /\ LET message ==
             IF app_phase = "init"
             THEN Message(StartType(scope_type), "app", IntV(200))
             ELSE Message(BodyType(scope_type), "app", None)
       IN  \/ /\ transport' = Append(transport, message)
              /\ response_started' =
                    IF AppSendName = "_send" THEN _send(message, response_started)
                    ELSE response_started
              /\ app_phase' = "started"
              /\ app_bodies' = IF app_phase = "init" THEN app_bodies ELSE app_bodies + 1
              /\ UNCHANGED <<pc, app_exc, leaving>>
           \/ /\ AppRaised(SendError)
              /\ UNCHANGED <<transport, app_phase, app_bodies, response_started>>
    /\ UNCHANGED <<scope_type, path, pre_hooks, post_hooks, app_calls, handler_calls,
                   hooks_done, hook_awaited, hook_log, response, renderVars, recordVars,
                   killVars, extVars>>

\* the wrapped app sends its next message; the transport's send accepts it or raises,
\* and what it raises propagates out of the app
AppSend ==
    /\ pc = "app"
    /\ \/ app_phase = "init"
       \/ app_phase = "started" /\ app_bodies < MaxBodyMsgs
    /\ LET message ==
             IF app_phase = "init"
             THEN Message(StartType(scope_type), "app", IntV(200))
             ELSE Message(BodyType(scope_type), "app", None)
       IN  /\ response_started' =
                IF AppSendName = "_send" THEN _send(message, response_started)
                ELSE response_started
           /\ \/ /\ transport' = Append(transport, message)
                 /\ app_phase' = "started"
                 /\ app_bodies' = IF app_phase = "init" THEN app_bodies ELSE app_bodies + 1
                 /\ UNCHANGED <<pc, app_exc, leaving>>
              \/ /\ AppRaised(SendError)
                 /\ UNCHANGED <<transport, app_phase, app_bodies>>
    /\ UNCHANGED <<scope_type, path, pre_hooks, post_hooks, app_calls, handler_calls,
                   hooks_done, hook_awaited, hook_log, response, renderVars, recordVars, killVars, extVars>>

\* the wrapped app raises
AppRaise ==
    /\ pc = "app"
    /\ \E f \in AppFaults : AppRaised(f)
    /\ UNCHANGED <<scope_type, path, pre_hooks, post_hooks, response_started, app_calls,
                   app_phase, app_bodies, transport, handler_calls, hooks_done,
                   hook_awaited, hook_log, response, renderVars, recordVars, killVars, extVars>>

\* the wrapped app returns
AppReturn ==
    /\ pc = "app"
    /\ pc' = "done"
    /\ leaving' = Returns
    /\ UNCHANGED <<scope_type, path, pre_hooks, post_hooks, response_started, app_calls,
                   app_phase, app_bodies, app_exc, transport, handler_calls, hooks_done,
                   hook_awaited, hook_log, response, renderVars, recordVars, killVars, extVars>>

\* except Exception as exc: the handler is called with Request(scope) and exc when no
\* response has started
Except ==
    /\ pc = "except"
    /\ IF ~response_started
       THEN /\ handler_calls' = Append(handler_calls, [request |-> path, exc |-> app_exc])
            /\ pc' = "pre_hooks"
       ELSE /\ handler_calls' = handler_calls
            /\ pc' = "reraise"
    /\ UNCHANGED <<scope_type, path, pre_hooks, post_hooks, response_started, app_calls,
                   app_phase, app_bodies, app_exc, transport, hooks_done, hook_awaited,
                   hook_log, response, leaving, renderVars, recordVars, killVars, extVars>>

\* raise exc from None: the exception is one object, so what holds it (the handler's
\* call and the events of the hooks) shows its __suppress_context__ too
Reraise ==
    /\ pc = "reraise"
    /\ pc' = "done"
    /\ app_exc' = raise_from_None(app_exc)
    /\ leaving' = Raises(raise_from_None(app_exc))
    /\ handler_calls' = [i \in DOMAIN handler_calls |->
                            [handler_calls[i] EXCEPT !.exc = raise_from_None(@)]]
    /\ hook_log' = [i \in DOMAIN hook_log |->
                       [hook_log[i] EXCEPT !.exc = raise_from_None(@)]]
    /\ UNCHANGED <<scope_type, path, pre_hooks, post_hooks, response_started, app_calls,
                   app_phase, app_bodies, transport, hooks_done, hook_awaited, response,
                   renderVars, recordVars, killVars, extVars>>

\* await response(scope, receive, send): the start message, then the body, each
\* accepted by the transport's send or raising out of the middleware
SendResponse ==
    /\ pc \in {"send_start", "send_body"}
    /\ \/ /\ transport' =
                Append(transport,
                       IF pc = "send_start"
                       THEN Message("http.response.start", "middleware", response.status_code)
                       ELSE Message("http.response.body", "middleware", None))
          /\ pc' = IF pc = "send_start" THEN "send_body" ELSE "reraise"
          /\ leaving' = leaving
       \/ /\ transport' = transport
          /\ pc' = "done"
          /\ leaving' = Raises(raise_during(SendError, app_exc))
    /\ UNCHANGED <<scope_type, path, pre_hooks, post_hooks, response_started, app_calls,
                   app_phase, app_bodies, app_exc, handler_calls, hooks_done,
                   hook_awaited, hook_log, response, renderVars, recordVars, killVars, extVars>>

(***************************************************************************)
(* exception_handler of problem_exception_handler_provider                 *)
(***************************************************************************)
\* the hook list the running exec_hooks iterates
RunningHooks == IF pc = "pre_hooks" THEN pre_hooks ELSE post_hooks

\* exec_hooks that iterates the hooks in reverse
exec_hooks_reversed(hooks, done) == hooks[Len(hooks) - done]

\* for hook in hooks: the hook that runs after `done` hooks have completed
exec_hooks_next(hooks, done) == hooks[done + 1]

\* the arguments exec_hooks passes on: (request, exc) or (request, response, exc)
HookEvent(h, ev) ==
    Event(IF pc = "pre_hooks" THEN "pre" ELSE "post", h.id, ev, path, app_exc, response)

\* a hook has run to its end: it returned, or it raised and nothing in exec_hooks,
\* exception_handler or __call__ catches what it raised
HookEnds(h, log) ==
    \/ /\ hook_log' = Append(log, HookEvent(h, "end"))
       /\ hooks_done' = hooks_done + 1
       /\ UNCHANGED <<pc, leaving>>
    \/ /\ hook_log' = Append(log, HookEvent(h, "raise"))
       /\ hooks_done' = hooks_done
       /\ pc' = "done"
       /\ leaving' = Raises(raise_during(HookError, app_exc))

\* exec_hooks calls the next hook: hook(*args) runs a plain function to its end,
\* await hook(*args) starts a coroutine function, which suspends
HookCall ==
    /\ pc \in {"pre_hooks", "post_hooks"}
    /\ ~hook_awaited
    /\ hooks_done < Len(RunningHooks)
    /\ LET h == exec_hooks_next(RunningHooks, hooks_done)
           log == Append(hook_log, HookEvent(h, "start"))
       IN  IF h.is_async
           THEN /\ hook_awaited' = TRUE
                /\ hook_log' = log
                /\ UNCHANGED <<hooks_done, pc, leaving>>
           ELSE /\ hook_awaited' = FALSE
                /\ HookEnds(h, log)
    /\ UNCHANGED <<scope_type, path, pre_hooks, post_hooks, response_started, app_calls,
                   app_phase, app_bodies, app_exc, transport, handler_calls, response,
                   renderVars, recordVars, killVars, extVars>>

\* the awaited hook resumes and runs to its end
HookResume ==
    /\ pc \in {"pre_hooks", "post_hooks"}
    /\ hook_awaited
    /\ hook_awaited' = FALSE
    /\ HookEnds(exec_hooks_next(RunningHooks, hooks_done), hook_log)
    /\ UNCHANGED <<scope_type, path, pre_hooks, post_hooks, response_started, app_calls,
                   app_phase, app_bodies, app_exc, transport, handler_calls, response,
                   renderVars, recordVars, killVars, extVars>>

\* response = ProblemResponse(request, exc), once exec_hooks(pre_hooks, ...) returned
Classify ==
    /\ pc = "pre_hooks"
    /\ ~hook_awaited
    /\ hooks_done = Len(pre_hooks)
    /\ LET r == ProblemResponse(path, app_exc)
       IN  IF r.raised # NoRaise
           THEN /\ pc' = "done"
                /\ leaving' = Raises(raise_during(Error(r.raised, r.msg), app_exc))
                /\ hook_log' =
                     Append(hook_log, Event("classify", 0, "raise", path, app_exc, response))
                /\ UNCHANGED <<response, hooks_done>>
           ELSE /\ pc' = "post_hooks"
                /\ response' = r
                /\ hooks_done' = 0
                /\ hook_log' =
                     Append(hook_log, Event("classify", 0, "end", path, app_exc, r))
                /\ leaving' = leaving
    /\ UNCHANGED <<scope_type, path, pre_hooks, post_hooks, response_started, app_calls,
                   app_phase, app_bodies, app_exc, transport, handler_calls,
                   hook_awaited, renderVars, recordVars, killVars, extVars>>

\* return response, once exec_hooks(post_hooks, ...) returned
HandlerReturn ==
    /\ pc = "post_hooks"
    /\ ~hook_awaited
    /\ hooks_done = Len(post_hooks)
    /\ pc' = "send_start"
    /\ hook_log' = Append(hook_log, Event("return", 0, "end", path, app_exc, response))
    /\ UNCHANGED <<scope_type, path, pre_hooks, post_hooks, response_started, app_calls,
                   app_phase, app_bodies, app_exc, transport, handler_calls, hooks_done,
                   hook_awaited, response, leaving, renderVars, recordVars, killVars, extVars>>

Next ==
    \/ Call
    \/ AppSend
    \/ AppRaise
    \/ AppReturn
    \/ Except
    \/ HookCall
    \/ HookResume
    \/ Classify
    \/ HandlerReturn
    \/ SendResponse
    \/ Reraise

Spec == Init /\ [][Next]_vars

(***************************************************************************)
(* The problem API as application code calls it: ProblemResponse(request,  *)
(* content) for every content; ProblemException(...) for every combination *)
(* of arguments, its fields set afterwards, and its to_response();         *)
(* ProblemResponse.from_domain_exception(exc, instance).                   *)
(***************************************************************************)
Origins == {"ProblemResponse", "ProblemException", "from_domain_exception"}

InitRender ==
    /\ scope_type = "http"
    /\ pre_hooks = <<>>
    /\ post_hooks = <<>>
    /\ pc = "direct"
    /\ response_started = FALSE
    /\ app_calls = <<>>
    /\ app_phase = "init"
    /\ app_bodies = 0
    /\ app_exc = NoContent
    /\ transport = <<>>
    /\ handler_calls = <<>>
    /\ hooks_done = 0
    /\ hook_awaited = FALSE
    /\ hook_log = <<>>
    /\ response = NoResponse
    /\ leaving = NotLeft
    /\ rendered = NoResponse
    /\ record = Unbuilt
    /\ sets = <<>>
    /\ returned = NoResponse
    /\ kill_switch_config_path = UnitConfigDisabledJson
    /\ IdleKillSwitch
    /\ IdleExt
    /\ origin \in Origins
    /\ \/ /\ origin = "ProblemResponse"
          /\ path \in Paths
          /\ content \in Contents
          /\ args = NoProblem
       \/ /\ origin = "ProblemException"
          /\ path = "/widgets/9"
          /\ content = NoContent
          /\ args \in ConstructorArgs
       \/ /\ origin = "from_domain_exception"
          /\ path = "/widgets/9"
          /\ content \in DomainFaults
          /\ args \in {[NoProblem EXCEPT !.instance = i] : i \in Identifiers}

Render ==
    /\ pc = "direct"
    /\ origin = "ProblemResponse"
    /\ rendered.branch = ""
    /\ rendered' = ProblemResponse(path, content)
    /\ UNCHANGED <<mwVars, path, content, recordVars, killVars, extVars>>

\* ProblemException(_type, title, status, detail, instance, errors)
Construct ==
    /\ origin = "ProblemException"
    /\ record = Unbuilt
    /\ record' = ProblemException(args.type, args.title, args.status, args.detail,
                                  args.instance, args.errors)
    /\ UNCHANGED <<mwVars, path, renderVars, origin, args, sets, returned, killVars, extVars>>

\* problem.<field> = <empty value>, after construction
SetField ==
    /\ origin = "ProblemException"
    /\ record # Unbuilt
    /\ record.raised = NoRaise
    /\ returned = NoResponse
    /\ Len(sets) < MaxSets
    /\ \E f \in Fields : \E v \in EmptyValues(f) :
          /\ record' = [record EXCEPT !.p[f] = v]
          /\ sets' = Append(sets, <<f, v>>)
    /\ UNCHANGED <<mwVars, path, renderVars, origin, args, returned, killVars, extVars>>

\* problem.to_response()
ToResponse ==
    /\ origin = "ProblemException"
    /\ record # Unbuilt
    /\ record.raised = NoRaise
    /\ returned = NoResponse
    /\ returned' = to_response(record.p)
    /\ UNCHANGED <<mwVars, path, renderVars, origin, args, record, sets, killVars, extVars>>

\* problem.to_bytes(): the bytes of to_dict(), the ValueError of int(self.status) or the
\* TypeError of json.dumps
ToBytes ==
    /\ origin = "ProblemException"
    /\ record # Unbuilt
    /\ record.raised = NoRaise
    /\ returned = NoResponse
    /\ returned' = IF to_dict_raises(record.p)
                   THEN [NoResponse EXCEPT !.raised = "ValueError",
                                           !.msg = IntMessage(record.p.status),
                                           !.branch = "to_bytes"]
                   ELSE IF to_bytes_raises(record.p)
                   THEN [NoResponse EXCEPT !.raised = "TypeError",
                                           !.msg = NotSerializableMessage(record.p),
                                           !.branch = "to_bytes"]
                   ELSE [NoResponse EXCEPT !.branch = "to_bytes", !.body = to_bytes(record.p)]
    /\ UNCHANGED <<mwVars, path, renderVars, origin, args, record, sets, killVars, extVars>>

\* ProblemResponse.from_domain_exception(exc, instance)
FromDomainException ==
    /\ origin = "from_domain_exception"
    /\ record = Unbuilt
    /\ LET r == from_domain_exception(content, args.instance)
       IN  /\ record' = r.record
           /\ returned' = r.response
    /\ UNCHANGED <<mwVars, path, renderVars, origin, args, sets, killVars, extVars>>

NextRender ==
    \/ Render
    \/ Construct
    \/ SetField
    \/ ToResponse
    \/ ToBytes
    \/ FromDomainException

SpecRender == InitRender /\ [][NextRender]_vars

(***************************************************************************)
(* environment_loader: Environment, the dotenv files and the steps of      *)
(* init, which the fixture of the unit tests and SpecEnvironment call.     *)
(***************************************************************************)
INHERIT_FROM_ENVIRONMENT_KEY_VALUE == "INHERIT_FROM_ENVIRONMENT"
CHANGE_ME_KEY_VALUE == "CHANGE_ME"

\* the variables of the tests, and Environment.NAME.value
TestVariables == {"VAR1", "VAR2"}
EnvironmentName == "ENVIRONMENT"

\* the values a variable has in the process environment and in the dotenv files
ProcessValues == {"", "test_value", CHANGE_ME_KEY_VALUE, INHERIT_FROM_ENVIRONMENT_KEY_VALUE}
SharedValues == {CHANGE_ME_KEY_VALUE, INHERIT_FROM_ENVIRONMENT_KEY_VALUE}
DeployedValues == {CHANGE_ME_KEY_VALUE, "deployed_value"}

\* the mappings from some of the names to the values
Mappings(names, values) == UNION {[S -> values] : S \in SUBSET names}

\* str.lower() of the environment names of the model
Lower(s) ==
    CASE s = "PROD" -> "prod"
      [] s = "Local" -> "local"
      [] s = "INHERIT_FROM_ENVIRONMENT" -> "inherit_from_environment"
      [] OTHER -> s

SharedPath == "environment/.env"
DeployedPath(name) == "environment/.env." \o Lower(name)

\* find_dotenv(path): the path of the file, "" when there is none
find_dotenv(files, file_path) == IF file_path \in DOMAIN files THEN file_path ELSE ""

\* dotenv_values(dotenv_path): the definitions of the file, none for a file not found
dotenv_values(files, dotenv_path) ==
    IF dotenv_path \in DOMAIN files THEN files[dotenv_path] ELSE EmptyMapping

\* os.environ[key] = value
Setenv(environ, key, value) ==
    [k \in DOMAIN environ \cup {key} |-> IF k = key THEN value ELSE environ[k]]

\* load_dotenv(dotenv_path, override=False): the definitions of the file are set for
\* the variables the process environment does not have
load_dotenv(environ, files, dotenv_path) ==
    LET defs == dotenv_values(files, dotenv_path)
    IN  [k \in DOMAIN environ \cup DOMAIN defs |->
            IF k \in DOMAIN environ THEN environ[k] ELSE defs[k]]

\* {**first, **second}
MergeDicts(first, second) ==
    [k \in DOMAIN first \cup DOMAIN second |->
        IF k \in DOMAIN second THEN second[k] ELSE first[k]]

RECURSIVE Join(_, _)
\* sep.join(names)
Join(names, sep) ==
    IF names = <<>> THEN ""
    ELSE IF Len(names) = 1 THEN names[1]
    ELSE names[1] \o sep \o Join(Tail(names), sep)

\* [var for var in variables if mapping.get(var) == value]
VariablesEqual(variables, mapping, value) ==
    LET Test(var) == var \in DOMAIN mapping /\ mapping[var] = value
    IN  SelectSeq(variables, Test)

\* [var for var in variables if var not in mapping]
VariablesNotIn(variables, mapping) ==
    LET Test(var) == var \notin DOMAIN mapping
    IN  SelectSeq(variables, Test)

ChangeMeMessage(names) ==
    "The following variables were set as 'CHANGE_ME' but no value were found for them in the deployment environment: "
        \o Join(names, ", ")
InheritMessage(names) ==
    "The following variables were set as 'INHERIT_FROM_ENVIRONMENT' but no value were found for them in the deployed environment: "
        \o Join(names, ", ")
MissingMessage(names) == "Missing compulsory environment variables: " \o Join(names, ", ")

\* how init ends: the process environment it leaves, the files it loaded, and what it
\* raised
EnvOutcome(environ, loaded, how, msg) ==
    [environ |-> environ, loaded |-> loaded, how |-> how,
     cls |-> IF how = "raise" THEN "AssertionError" ELSE "", msg |-> msg]

\* the checks of init that name only the first missing variable
environment_checks_first_missing(compulsory, merged, environ, loaded) ==
    LET change_me_variables == VariablesEqual(compulsory, merged, CHANGE_ME_KEY_VALUE)
        inherent_variables ==
            VariablesEqual(compulsory, environ, INHERIT_FROM_ENVIRONMENT_KEY_VALUE)
        missing_variables == VariablesNotIn(compulsory, environ)
    IN  IF change_me_variables # <<>>
        THEN EnvOutcome(environ, loaded, "raise", ChangeMeMessage(change_me_variables))
        ELSE IF inherent_variables # <<>>
        THEN EnvOutcome(environ, loaded, "raise", InheritMessage(inherent_variables))
        ELSE IF missing_variables # <<>>
        THEN EnvOutcome(environ, loaded, "raise", MissingMessage(<<missing_variables[1]>>))
        ELSE EnvOutcome(environ, loaded, "return", "")

\* the checks of init that look for INHERIT_FROM_ENVIRONMENT in the definitions of the
\* files instead of the process environment
environment_checks_inherit_from_files(compulsory, merged, environ, loaded) ==
    LET change_me_variables == VariablesEqual(compulsory, merged, CHANGE_ME_KEY_VALUE)
        inherent_variables ==
            VariablesEqual(compulsory, merged, INHERIT_FROM_ENVIRONMENT_KEY_VALUE)
        missing_variables == VariablesNotIn(compulsory, environ)
    IN  IF change_me_variables # <<>>
        THEN EnvOutcome(environ, loaded, "raise", ChangeMeMessage(change_me_variables))
        ELSE IF inherent_variables # <<>>
        THEN EnvOutcome(environ, loaded, "raise", InheritMessage(inherent_variables))
        ELSE IF missing_variables # <<>>
        THEN EnvOutcome(environ, loaded, "raise", MissingMessage(missing_variables))
        ELSE EnvOutcome(environ, loaded, "return", "")

\* the three checks of init, over the definitions of the files and the environment
\* after loading
environment_checks(compulsory, merged, environ, loaded) ==
    LET change_me_variables == VariablesEqual(compulsory, merged, CHANGE_ME_KEY_VALUE)
        inherent_variables ==
            VariablesEqual(compulsory, environ, INHERIT_FROM_ENVIRONMENT_KEY_VALUE)
        missing_variables == VariablesNotIn(compulsory, environ)
    IN  IF change_me_variables # <<>>
        THEN EnvOutcome(environ, loaded, "raise", ChangeMeMessage(change_me_variables))
        ELSE IF inherent_variables # <<>>
        THEN EnvOutcome(environ, loaded, "raise", InheritMessage(inherent_variables))
        ELSE IF missing_variables # <<>>
        THEN EnvOutcome(environ, loaded, "raise", MissingMessage(missing_variables))
        ELSE EnvOutcome(environ, loaded, "return", "")

\* environment_loader.init(compulsory_variables)
environment_loader_init(compulsory, environ, files) ==
    LET named == IF EnvironmentName \in DOMAIN environ THEN environ
                 ELSE Setenv(environ, EnvironmentName, "local")
        shared_environment_config == find_dotenv(files, SharedPath)
        deployed_environment_config ==
            find_dotenv(files, DeployedPath(named[EnvironmentName]))
        loaded == load_dotenv(load_dotenv(named, files, shared_environment_config),
                              files, deployed_environment_config)
        memory_loaded_dotenv ==
            MergeDicts(dotenv_values(files, shared_environment_config),
                       dotenv_values(files, deployed_environment_config))
    IN  environment_checks(compulsory, memory_loaded_dotenv, loaded,
                           <<shared_environment_config, deployed_environment_config>>)

\* the lists of distinct names, up to a length
DistinctSeqs(names, n) ==
    {q \in UNION {[1..k -> names] : k \in 0..n} :
        \A i, j \in 1..Len(q) : i # j => q[i] # q[j]}

\* the dotenv files of a checkout: the shared file and the file of one environment
DotenvCheckouts ==
    {[p \in {SharedPath, DeployedPath(d)} |-> IF p = SharedPath THEN sh ELSE dp] :
        d \in {"local", "prod"},
        sh \in Mappings(TestVariables, SharedValues),
        dp \in Mappings(TestVariables, DeployedValues)}

\* Environment.as_list(): the values of the members, in the order of their definition
Environment_as_list ==
    <<"ENVIRONMENT", "LOG_LEVEL", "LOG_JSON_FORMAT", "APP_NAME", "APP_VERSION",
      "APP_SUMMARY", "APP_DESCRIPTION", "APP_CONTACT_NAME", "APP_CONTACT_URL",
      "APP_CONTACT_EMAIL", "APP_LICENCE_NAME", "APP_LICENCE_URL", "APP_WEB_HOST",
      "APP_WEB_PORT", "APP_WEB_CORS_ALLOW_ORIGINS", "APP_WEB_CORS_ALLOW_CREDENTIALS",
      "APP_WEB_CORS_ALLOW_METHODS", "APP_WEB_CORS_ALLOW_HEADERS", "GCP_PROJECT_ID",
      "GCP_SECRET_MANAGER_CACHE_TTL_SECS", "OPENAPI_VERSION",
      "KILL_SWITCH_CONFIG_PATH", "DB_NAME", "DB_USERNAME", "DB_CONNECTION">>

\* environment/.env of a checkout from which main.py starts: it defines the variables
\* of Environment but the name of the environment and the path of the kill-switch
\* configuration
MainDotenvFiles ==
    [p \in {SharedPath} |->
        [k \in {Environment_as_list[i] : i \in 1..Len(Environment_as_list)}
                   \ {EnvironmentName, "KILL_SWITCH_CONFIG_PATH"} |->
            IF k = "GCP_SECRET_MANAGER_CACHE_TTL_SECS" THEN "2" ELSE "test_value"]]

\* os.environ: the variables os_environ holds, KILL_SWITCH_CONFIG_PATH and, when it is
\* set, GCP_SECRET_MANAGER_CACHE_TTL_SECS
ProcessEnviron(environ, config_path, ttl) ==
    LET held == Setenv(environ, "KILL_SWITCH_CONFIG_PATH", config_path)
    IN  IF ttl = None THEN held
        ELSE Setenv(held, "GCP_SECRET_MANAGER_CACHE_TTL_SECS", ttl.s)

\* the variables of os.environ that os_environ holds
OtherVariables(environ) ==
    [k \in DOMAIN environ \ {"KILL_SWITCH_CONFIG_PATH", "GCP_SECRET_MANAGER_CACHE_TTL_SECS"} |->
        environ[k]]

\* os.environ["GCP_SECRET_MANAGER_CACHE_TTL_SECS"], None when it is not set
CacheTtlOf(environ) ==
    IF "GCP_SECRET_MANAGER_CACHE_TTL_SECS" \in DOMAIN environ
    THEN StrV(environ["GCP_SECRET_MANAGER_CACHE_TTL_SECS"])
    ELSE None

(***************************************************************************)
(* KillSwitchMiddleware: requests are dispatched one after the other while *)
(* the kill-switch configuration is switched at any moment, in a process   *)
(* in which main.py has called environment_loader.init().                  *)
(***************************************************************************)
RECURSIVE rstrip(_, _)
\* s.rstrip(ch)
rstrip(s, ch) ==
    IF s # "" /\ SubSeq(s, Len(s), Len(s)) = ch
    THEN rstrip(SubSeq(s, 1, Len(s) - 1), ch)
    ELSE s

\* the paths of the requests
RequestPaths == {"/health", "/ready/", "/docs", "/docs/"}

\* the exclude_paths a KillSwitchMiddleware is constructed with (none: the empty list)
ExcludeConfigs == {MainExcludePaths, <<"/docs/", "/redoc//">>, <<>>}

\* dispatch that compares the paths as they are, trailing slashes included
IsExcluded_exact(p, excluded) == \E i \in 1..Len(excluded) : p = excluded[i]

\* KillSwitchConfig.load() that keeps what the first request was decided with
KillSwitchConfig_load_cached ==
    IF ks_log = <<>> THEN KillSwitchConfig_load_from(kill_switch_config_path)
    ELSE ks_log[1].config

\* KillSwitchConfig.load(): the path is read from the environment and the file is read
\* at every call
KillSwitchConfig_load == KillSwitchConfig_load_from(kill_switch_config_path)

KillSwitchMessage ==
    "Kill-Switch is enabled. Please contact the service owner for more information."

\* the response of the endpoint behind the middleware
DownstreamResponse ==
    [NoResponse EXCEPT !.branch = "call_next", !.status_code = IntV(200),
                       !.media_type = "application/json", !.body = "{}"]

\* normalised_path in normalised_exclude_paths
IsExcluded(p, excluded) ==
    \E i \in 1..Len(excluded) : rstrip(p, "/") = rstrip(excluded[i], "/")

InitKillSwitch ==
    /\ scope_type = "http"
    /\ path = "/widgets/9"
    /\ pre_hooks = <<>>
    /\ post_hooks = <<>>
    /\ pc = "direct"
    /\ response_started = FALSE
    /\ app_calls = <<>>
    /\ app_phase = "init"
    /\ app_bodies = 0
    /\ app_exc = NoContent
    /\ transport = <<>>
    /\ handler_calls = <<>>
    /\ hooks_done = 0
    /\ hook_awaited = FALSE
    /\ hook_log = <<>>
    /\ response = NoResponse
    /\ leaving = NotLeft
    /\ IdleRender
    /\ origin = "KillSwitchMiddleware"
    /\ IdleRecord
    /\ kill_switch_config_path \in ConfigPaths
    /\ exclude_paths \in ExcludeConfigs
    /\ ks_pc = "idle"
    /\ ks_path = ""
    /\ ks_config = NoConfig
    /\ ks_downstream = 0
    /\ ks_response = NoResponse
    /\ ks_log = <<>>
    /\ secret_cache = EmptyCache
    /\ now = 0
    /\ backend = [n \in SecretNames |-> "s3cr3t"]
    /\ sm_calls = 0
    /\ sm_threads = [t \in SecretThreads |-> NoSecretCall]
    /\ sm_result = NoSecretResult
    /\ dotenv_files = MainDotenvFiles
    /\ compulsory_variables = <<>>
    /\ LET out == environment_loader_init(
                      Environment_as_list,
                      ProcessEnviron(EmptyMapping, kill_switch_config_path, None),
                      dotenv_files)
       IN  /\ os_environ = OtherVariables(out.environ)
           /\ ttl_env = CacheTtlOf(out.environ)
           /\ env_result = [how |-> out.how, cls |-> out.cls, msg |-> out.msg,
                            loaded |-> out.loaded, environ |-> out.environ]
    /\ IdleStack

\* the fixture with_kill_switch_enabled of tests/integration/test_killswitch_endpoint.py
with_kill_switch_enabled ==
    /\ kill_switch_config_path # CONFIG_ENABLED_JSON
    /\ kill_switch_config_path' = CONFIG_ENABLED_JSON
    /\ UNCHANGED <<mwVars, path, extVars, renderVars, recordVars, exclude_paths, ks_pc, ks_path,
                   ks_config, ks_downstream, ks_response, ks_log>>

\* the fixture with_kill_switch_disabled of tests/integration/conftest.py: the path it
\* sets names no file
with_kill_switch_disabled ==
    /\ kill_switch_config_path # CONFIG_DISABLED_JSON
    /\ kill_switch_config_path' = CONFIG_DISABLED_JSON
    /\ UNCHANGED <<mwVars, path, extVars, renderVars, recordVars, exclude_paths, ks_pc, ks_path,
                   ks_config, ks_downstream, ks_response, ks_log>>

\* the fixture mock_environment of tests/unit/conftest.py: environment_loader.init()
\* with every variable of Environment compulsory, over the whole of os.environ, and,
\* when init returned, the path of the resource whose flag is not set
mock_environment ==
    /\ LET out == environment_loader_init(
                      Environment_as_list,
                      ProcessEnviron(os_environ, kill_switch_config_path, ttl_env),
                      dotenv_files)
       IN  /\ os_environ' = OtherVariables(out.environ)
           /\ ttl_env' = CacheTtlOf(out.environ)
           /\ env_result' = [how |-> out.how, cls |-> out.cls, msg |-> out.msg,
                             loaded |-> out.loaded, environ |-> out.environ]
           /\ kill_switch_config_path' =
                 IF out.how = "return" THEN UnitConfigDisabledJson
                 ELSE kill_switch_config_path
    /\ UNCHANGED <<mwVars, path, renderVars, recordVars, exclude_paths, ks_pc, ks_path,
                   ks_config, ks_downstream, ks_response, ks_log, secret_cache, now,
                   backend, sm_calls, sm_threads, sm_result, dotenv_files,
                   compulsory_variables, stackVars>>

\* dispatch up to its return, to its await of call_next, or to the exception of
\* KillSwitchConfig.load(); an excluded path is handed on without a load
Dispatch ==
    /\ ks_pc = "idle"
    /\ Len(ks_log) < MaxRequests
    /\ \E p \in RequestPaths :
          /\ ks_path' = p
          /\ ks_downstream' = 0
          /\ ks_config' = KillSwitchConfig_load_from(kill_switch_config_path)
          /\ IF IsExcluded(p, exclude_paths)
             THEN ks_pc' = "call_next" /\ ks_response' = NoResponse
             ELSE IF KillSwitchConfig_load.raised # NoRaise
             THEN ks_pc' = "raise" /\ ks_response' = NoResponse
             ELSE IF KillSwitchConfig_load.enabled
             THEN /\ ks_pc' = "return"
                  /\ ks_response' =
                        to_response(ProblemException(None, None, IntV(503),
                                                     StrV(KillSwitchMessage), None, None).p)
             ELSE ks_pc' = "call_next" /\ ks_response' = NoResponse
    /\ UNCHANGED <<mwVars, path, extVars, renderVars, recordVars, kill_switch_config_path,
                   exclude_paths, ks_log>>

\* await call_next(request): the endpoint answers
CallNext ==
    /\ ks_pc = "call_next"
    /\ ks_downstream' = ks_downstream + 1
    /\ ks_response' = DownstreamResponse
    /\ ks_pc' = "return"
    /\ UNCHANGED <<mwVars, path, extVars, renderVars, recordVars, kill_switch_config_path,
                   exclude_paths, ks_path, ks_config, ks_log>>

\* the request is answered: its path, what the configuration file gave as dispatch
\* decided, the calls of call_next, the response and the class of the exception raised
Answered(raised) ==
    [path |-> ks_path, config |-> ks_config, downstream |-> ks_downstream,
     response |-> ks_response, raised |-> raised]

\* dispatch returns its response
DispatchReturn ==
    /\ ks_pc = "return"
    /\ ks_log' = Append(ks_log, Answered(NoRaise))
    /\ ks_pc' = "idle"
    /\ ks_path' = ""
    /\ ks_config' = NoConfig
    /\ ks_downstream' = 0
    /\ ks_response' = NoResponse
    /\ UNCHANGED <<mwVars, path, extVars, renderVars, recordVars, kill_switch_config_path,
                   exclude_paths>>

\* the exception of KillSwitchConfig.load() leaves dispatch
DispatchRaise ==
    /\ ks_pc = "raise"
    /\ ks_log' = Append(ks_log, Answered(ks_config.raised))
    /\ ks_pc' = "idle"
    /\ ks_path' = ""
    /\ ks_config' = NoConfig
    /\ ks_downstream' = 0
    /\ ks_response' = NoResponse
    /\ UNCHANGED <<mwVars, path, extVars, renderVars, recordVars, kill_switch_config_path,
                   exclude_paths>>

NextKillSwitch ==
    \/ with_kill_switch_enabled
    \/ with_kill_switch_disabled
    \/ mock_environment
    \/ Dispatch
    \/ CallNext
    \/ DispatchReturn
    \/ DispatchRaise

SpecKillSwitch == InitKillSwitch /\ [][NextKillSwitch]_vars

(***************************************************************************)
(* SecretManager.get_secret: threads call it at any moment, and their calls *)
(* interleave (the class has no lock), while time passes and the secret    *)
(* versions are rotated in the Secret Manager service.                     *)
(***************************************************************************)
\* UnhandledExceptionsMiddleware, the renderer and the records stand still
IdleMiddleware ==
    /\ scope_type = "http"
    /\ path = "/widgets/9"
    /\ pre_hooks = <<>>
    /\ post_hooks = <<>>
    /\ pc = "direct"
    /\ response_started = FALSE
    /\ app_calls = <<>>
    /\ app_phase = "init"
    /\ app_bodies = 0
    /\ app_exc = NoContent
    /\ transport = <<>>
    /\ handler_calls = <<>>
    /\ hooks_done = 0
    /\ hook_awaited = FALSE
    /\ hook_log = <<>>
    /\ response = NoResponse
    /\ leaving = NotLeft
    /\ IdleRender
    /\ IdleRecord

\* the values of GCP_SECRET_MANAGER_CACHE_TTL_SECS (None: the variable is not set)
TtlValues == {None, StrV("0"), StrV("2"), StrV("soon")}

\* whether a string is a run of decimal digits
IsDigits(s) == s # "" /\ ScanDigits(s, 0).rest = ""

\* Environment.GCP_SECRET_MANAGER_CACHE_TTL_SECS.get(), then int() of it
TtlRaises(v) ==
    IF v = None THEN "KeyError"
    ELSE IF ~IsDigits(v.s) THEN "ValueError"
    ELSE NoRaise
TtlSeconds(v) == ScanDigits(v.s, 0).v

\* client.access_secret_version(...).payload.data.decode("UTF-8")
Fetched(value) == [raised |-> NoRaise, value |-> value]
FetchFailed == [raised |-> "GoogleAPICallError", value |-> ""]

\* an assignment that leaves the entry of name as the only entry of the cache
CachePut_clears(cache, name, value, timestamp) ==
    [n \in {name} |-> <<value, timestamp>>]

\* cache[name] = (value, timestamp)
CachePut(cache, name, value, timestamp) ==
    [n \in DOMAIN cache \cup {name} |->
        IF n = name THEN <<value, timestamp>> ELSE cache[n]]

\* what the comparison of the age finds: an exception of the TTL's lookup or conversion,
\* the cached value is to be returned, or it is not
Lookup(raised, hit) == [raised |-> raised, hit |-> hit]

\* the comparison that serves the cached value up to and including the age of the TTL
cache_lookup_ttl_inclusive(current_time, cache_timestamp, ttl) ==
    IF TtlRaises(ttl) # NoRaise THEN Lookup(TtlRaises(ttl), FALSE)
    ELSE Lookup(NoRaise, current_time - cache_timestamp <= TtlSeconds(ttl))

\* current_time - cache_timestamp < int(Environment.GCP_SECRET_MANAGER_CACHE_TTL_SECS.get())
cache_lookup(current_time, cache_timestamp, ttl) ==
    IF TtlRaises(ttl) # NoRaise THEN Lookup(TtlRaises(ttl), FALSE)
    ELSE Lookup(NoRaise, current_time - cache_timestamp < TtlSeconds(ttl))

\* how a call of get_secret ended: what it raised or returned, the calls of the backend
\* it made, the cache as it was when the call began and the names other calls stored
\* under during the call
SecretResult(call, raised, value, fetched) ==
    [name |-> call.secret_name, current_time |-> call.current_time, raised |-> raised,
     value |-> value, fetched |-> fetched, cache_before |-> call.cache_before,
     stored_meanwhile |-> call.stored_meanwhile]

InitSecretManager ==
    /\ IdleMiddleware
    /\ origin = "SecretManager"
    /\ kill_switch_config_path = UnitConfigDisabledJson
    /\ IdleKillSwitch
    /\ secret_cache = EmptyCache
    /\ now = 0
    /\ backend = [n \in SecretNames |-> "s3cr3t"]
    /\ ttl_env \in TtlValues
    /\ sm_calls = 0
    /\ sm_threads = [t \in SecretThreads |-> NoSecretCall]
    /\ sm_result = NoSecretResult
    /\ IdleEnvironment
    /\ IdleStack

\* time passes
Tick ==
    /\ now < MaxTime
    /\ now' = now + 1
    /\ UNCHANGED <<mwVars, path, renderVars, recordVars, killVars, secret_cache, backend,
                   ttl_env, sm_calls, sm_threads, sm_result, envVars, stackVars>>

\* a new version of a secret is added in the Secret Manager service
Rotate ==
    /\ \E n \in SecretNames :
          /\ NextVersion(backend[n]) # backend[n]
          /\ backend' = [backend EXCEPT ![n] = NextVersion(backend[n])]
    /\ UNCHANGED <<mwVars, path, renderVars, recordVars, killVars, secret_cache, now,
                   ttl_env, sm_calls, sm_threads, sm_result, envVars, stackVars>>

\* get_secret(secret_name) is called by a thread, the second thread when the first is
\* in a call: current_time = time.time()
ReadClock ==
    /\ sm_calls < MaxCalls
    /\ \E t \in SecretThreads, secret_name \in SecretNames :
          /\ sm_threads[t].pc = "idle"
          /\ t = "t2" => sm_threads["t1"].pc # "idle"
          /\ sm_threads' = [sm_threads EXCEPT ![t] =
                               [pc |-> "check", secret_name |-> secret_name,
                                current_time |-> now, secret_value |-> "",
                                cache_timestamp |-> 0, cache_before |-> secret_cache,
                                stored_meanwhile |-> {}]]
    /\ sm_calls' = sm_calls + 1
    /\ UNCHANGED <<mwVars, path, renderVars, recordVars, killVars, secret_cache, now,
                   backend, ttl_env, sm_result, envVars, stackVars>>

\* if secret_name in SecretManager._secret_cache: the call goes on to read the entry, or
\* to the backend
CacheContains ==
    /\ \E t \in SecretThreads :
          LET call == sm_threads[t]
          IN  /\ call.pc = "check"
              /\ sm_threads' = [sm_threads EXCEPT ![t].pc =
                                   IF call.secret_name \in DOMAIN secret_cache
                                   THEN "read" ELSE "fetch"]
    /\ UNCHANGED <<mwVars, path, renderVars, recordVars, killVars, secret_cache, now,
                   backend, ttl_env, sm_calls, sm_result, envVars, stackVars>>

\* secret_value, cache_timestamp = SecretManager._secret_cache[secret_name]: the entry the
\* cache holds now, which another call may have stored since the test (no entry is ever
\* removed)
ReadEntry ==
    /\ \E t \in SecretThreads :
          LET call == sm_threads[t]
          IN  /\ call.pc = "read"
              /\ sm_threads' = [sm_threads EXCEPT
                                   ![t].pc = "compare",
                                   ![t].secret_value = secret_cache[call.secret_name][1],
                                   ![t].cache_timestamp = secret_cache[call.secret_name][2]]
    /\ UNCHANGED <<mwVars, path, renderVars, recordVars, killVars, secret_cache, now,
                   backend, ttl_env, sm_calls, sm_result, envVars, stackVars>>

\* the comparison of the age of the entry read with the TTL: the call returns the value
\* read, raises, or goes on to the backend
CompareAge ==
    /\ \E t \in SecretThreads :
          LET call == sm_threads[t]
              found == cache_lookup(call.current_time, call.cache_timestamp, ttl_env)
          IN  /\ call.pc = "compare"
              /\ IF found.raised # NoRaise
                 THEN /\ sm_threads' = [sm_threads EXCEPT ![t] = NoSecretCall]
                      /\ sm_result' = SecretResult(call, found.raised, "", 0)
                 ELSE IF found.hit
                 THEN /\ sm_threads' = [sm_threads EXCEPT ![t] = NoSecretCall]
                      /\ sm_result' = SecretResult(call, NoRaise, call.secret_value, 0)
                 ELSE /\ sm_threads' = [sm_threads EXCEPT ![t].pc = "fetch"]
                      /\ sm_result' = sm_result
    /\ UNCHANGED <<mwVars, path, renderVars, recordVars, killVars, secret_cache, now,
                   backend, ttl_env, sm_calls, envVars, stackVars>>

\* client.access_secret_version(name=secret_name): the backend answers with the current
\* version, or fails and the exception leaves get_secret
AccessSecretVersion ==
    /\ \E t \in SecretThreads :
          LET call == sm_threads[t]
          IN  /\ call.pc = "fetch"
              /\ \E fetch \in {Fetched(backend[call.secret_name]), FetchFailed} :
                    IF fetch.raised # NoRaise
                    THEN /\ sm_threads' = [sm_threads EXCEPT ![t] = NoSecretCall]
                         /\ sm_result' = SecretResult(call, fetch.raised, "", 1)
                    ELSE /\ sm_threads' = [sm_threads EXCEPT ![t].pc = "store",
                                                             ![t].secret_value = fetch.value]
                         /\ sm_result' = sm_result
    /\ UNCHANGED <<mwVars, path, renderVars, recordVars, killVars, secret_cache, now,
                   backend, ttl_env, sm_calls, envVars, stackVars>>

\* _secret_cache[secret_name] = (secret_value, current_time), then return secret_value;
\* the calls the other threads are in have the name stored under noted
StoreSecret ==
    /\ \E t \in SecretThreads :
          LET call == sm_threads[t]
          IN  /\ call.pc = "store"
              /\ secret_cache' = CachePut(secret_cache, call.secret_name, call.secret_value,
                                          call.current_time)
              /\ sm_threads' =
                    [u \in SecretThreads |->
                        IF u = t THEN NoSecretCall
                        ELSE IF sm_threads[u].pc = "idle" THEN sm_threads[u]
                        ELSE [sm_threads[u] EXCEPT
                                 !.stored_meanwhile = @ \cup {call.secret_name}]]
              /\ sm_result' = SecretResult(call, NoRaise, call.secret_value, 1)
    /\ UNCHANGED <<mwVars, path, renderVars, recordVars, killVars, now, backend, ttl_env,
                   sm_calls, envVars, stackVars>>

\* Environment.GCP_SECRET_MANAGER_CACHE_TTL_SECS.set(value): os.environ[self.value] = value
SetCacheTtl ==
    /\ \E value \in TtlValues \ {None} :
          /\ value # ttl_env
          /\ ttl_env' = value
    /\ UNCHANGED <<mwVars, path, renderVars, recordVars, killVars, secret_cache, now,
                   backend, sm_calls, sm_threads, sm_result, envVars, stackVars>>

NextSecretManager ==
    \/ Tick
    \/ Rotate
    \/ SetCacheTtl
    \/ ReadClock
    \/ CacheContains
    \/ ReadEntry
    \/ CompareAge
    \/ AccessSecretVersion
    \/ StoreSecret

SpecSecretManager == InitSecretManager /\ [][NextSecretManager]_vars

(***************************************************************************)
(* environment_loader.init: called once in a process whose environment and *)
(* dotenv files are any of the combinations below.                         *)
(***************************************************************************)
InitEnvironment ==
    /\ IdleMiddleware
    /\ origin = "environment_loader"
    /\ kill_switch_config_path = UnitConfigDisabledJson
    /\ IdleKillSwitch
    /\ IdleSecretManager
    /\ \E vars_set \in Mappings(TestVariables, ProcessValues) :
          os_environ \in {vars_set, Setenv(vars_set, EnvironmentName, "PROD")}
    /\ dotenv_files \in DotenvCheckouts
    /\ compulsory_variables \in DistinctSeqs(TestVariables \cup {EnvironmentName}, MaxCompulsory)
    /\ env_result = NoEnvResult
    /\ IdleStack

\* the call of init: how it ended, and the process environment it left
EnvironmentInit ==
    /\ env_result.how = ""
    /\ LET out == environment_loader_init(compulsory_variables, os_environ, dotenv_files)
       IN  /\ os_environ' = out.environ
           /\ env_result' = [how |-> out.how, cls |-> out.cls, msg |-> out.msg,
                             loaded |-> out.loaded, environ |-> out.environ]
    /\ UNCHANGED <<mwVars, path, renderVars, recordVars, killVars, secretVars, dotenv_files,
                   compulsory_variables, stackVars>>

\* the values application code gives Environment.NAME
EnvironmentNameValues == {"PROD", INHERIT_FROM_ENVIRONMENT_KEY_VALUE}

\* Environment.NAME.set(value), before or after init: os.environ[self.value] = value
EnvironmentSet ==
    /\ \E value \in EnvironmentNameValues :
          /\ os_environ' = Setenv(os_environ, EnvironmentName, value)
          /\ os_environ' # os_environ
    /\ UNCHANGED <<mwVars, path, renderVars, recordVars, killVars, secretVars, dotenv_files,
                   compulsory_variables, env_result, stackVars>>

NextEnvironment ==
    \/ EnvironmentInit
    \/ EnvironmentSet

SpecEnvironment == InitEnvironment /\ [][NextEnvironment]_vars

(***************************************************************************)
(* The application of main.py: one request descends through the middleware *)
(* stack to the route handler, and its outcome (a response or an exception)*)
(* ascends. UnhandledExceptionsMiddleware runs as in Spec, its wrapped app  *)
(* being the layers below it.                                              *)
(***************************************************************************)
\* add_middleware that appends, so that the middleware added first is the outermost
add_middleware_appends(user_middleware, middleware) == user_middleware \o <<middleware>>

\* app.add_middleware: user_middleware.insert(0, middleware), so the middleware added
\* last is the outermost
add_middleware(user_middleware, middleware) == <<middleware>> \o user_middleware

\* the middlewares main.py adds, in the order of the file: problem_configurator.init
\* adds UnhandledExceptionsMiddleware, and Instrumentator().instrument(app) adds the
\* middleware of the instrumentator last
MainRegistrations ==
    <<"KillSwitchMiddleware", "HttpLoggingMiddleware", "CORSMiddleware",
      "UnhandledExceptionsMiddleware", "TraceabilityMiddleware",
      "PrometheusInstrumentatorMiddleware">>

RECURSIVE Registered(_)
\* user_middleware after the first n registrations
Registered(n) ==
    IF n = 0 THEN <<>> ELSE add_middleware(Registered(n - 1), MainRegistrations[n])

\* the stack of the application, outermost middleware first
MainStack == Registered(Len(MainRegistrations))

\* the exclude_paths main.py gives HttpLoggingMiddleware
MainLoggingExcludePaths == <<"/ready", "/docs", "/redoc", "/openapi.json">>

\* the layer at a depth: 0 is the server, past the last middleware stands the router
\* with the exception handlers and the route handlers
Layer(d) ==
    IF d = 0 THEN "server"
    ELSE IF d <= Len(MainStack) THEN MainStack[d]
    ELSE "route"

\* the paths of the GET requests: four routes of the application, a route with a slash
\* appended, and a path no route has
StackPaths == {"/resources", "/ready", "/ready/", "/health", "/docs", "/api/v1/resources"}
RequestIdHeaders == {None, StrV("abc")}

\* uuid.uuid4().hex
GeneratedIds == {"0f0f", "a1a1"}

\* the StopIteration of the scanner, in whose except clause json raises JSONDecodeError
JsonScanStop == [NoContent EXCEPT !.kinds = {"Exception"}, !.cls = "StopIteration", !.msg = "0"]

\* the exception of KillSwitchConfig.load(): open() raises FileNotFoundError; json.load()
\* raises JSONDecodeError from None while it handles the StopIteration of its scanner
KillSwitchFault(config) ==
    IF config.raised = "JSONDecodeError"
    THEN raise_from_None(raise_during(Error(config.raised, config.msg), JsonScanStop))
    ELSE Error(config.raised, config.msg)

\* what ascends: a response with its x-request-id header (None: not set), or an exception
ResponseResult(r, request_id) ==
    [kind |-> "response", response |-> r, exc |-> NoContent, request_id |-> request_id]
RaiseResult(exc) ==
    [kind |-> "raise", response |-> NoResponse, exc |-> exc, request_id |-> None]

\* a record of HttpLoggingMiddleware: its message and the request id it carries
LogRecord(msg, request_id) == [msg |-> msg, request_id |-> request_id]

\* the response of a route: its status code, media type and body
RouteResponse(status_code, media_type, body) ==
    [NoResponse EXCEPT !.branch = "route", !.status_code = IntV(status_code),
                       !.media_type = media_type, !.body = body]

\* the routes main.py includes, and the documentation route of the application
MainRoutes == {"/resources", "/ready", "/health", "/docs"}

\* the router raises HTTPException(status_code=404) when no route matches the path
NotFoundFault ==
    [NoContent EXCEPT !.kinds = {"HTTPException", "Exception"}, !.cls = "HTTPException",
                      !.status_code = IntV(404), !.detail = StrV(HTTPStatusPhrase(404)),
                      !.msg = HTTPExceptionStr(IntV(404), StrV(HTTPStatusPhrase(404)))]

\* ProblemResponse.init_headers: the headers of the response are those of its problem,
\* and the problem of an uncaught exception has none, so it has no x-request-id
ProblemResponseRequestId(r) == None

\* get_resources: the defaults of its parameters x_correlation_id and x_source are the
\* Annotated aliases themselves, so the validation of a request fails for them before
\* the function is called, and the RequestValidationError names the alias as its input
AliasDefaultErrors ==
    << StringTypeError("x_correlation_id", x_correlation_id),
       StringTypeError("x_source", x_source) >>
AliasDefaultFault ==
    [NoContent EXCEPT !.kinds = {"RequestValidationError", "Exception"},
                      !.cls = "RequestValidationError", !.verrors = AliasDefaultErrors,
                      !.msg = ValidationStr(AliasDefaultErrors), !.tb = RaisedTraceback]

\* ProblemResponse(request, exc) for that RequestValidationError, in the except clause
\* that handles it: json.dumps raises for the alias in the errors of the problem
AliasNotSerializable ==
    LET r == ProblemResponse("/resources", AliasDefaultFault)
    IN  raise_during(Error(r.raised, r.msg), AliasDefaultFault)

\* whether the router calls the route function of the path
RouteMatches(request_path) == request_path \in MainRoutes \ {"/resources"}

\* what the router answers on a GET request: the exception of the exception handler for
\* /resources; the response of the route function of the path; a redirect to the path
\* without its last slash when that is a route; the ProblemResponse that
\* exception_handler builds for the HTTPException of the router
RouteOutcome(request_path) ==
    CASE request_path = "/resources" -> RaiseResult(AliasNotSerializable)
      [] request_path = "/ready" ->
            ResponseResult(RouteResponse(200, "application/json", "null"), None)
      [] request_path = "/health" ->
            ResponseResult(RouteResponse(200, "application/json",
                              "{\"status\":\"OK\",\"message\":\"Service is healthy.\"}"), None)
      [] request_path = "/docs" ->
            ResponseResult(RouteResponse(200, "text/html; charset=utf-8", "<!DOCTYPE html>"),
                           None)
      [] rstrip(request_path, "/") \in MainRoutes /\ request_path # "/" ->
            ResponseResult(RouteResponse(307, "", ""), None)
      [] OTHER -> ResponseResult(ProblemResponse(request_path, NotFoundFault), None)

\* the variables of UnhandledExceptionsMiddleware but pc
mwButPc ==
    <<scope_type, pre_hooks, post_hooks, response_started, app_calls, app_phase,
      app_bodies, app_exc, transport, handler_calls, hooks_done, hook_awaited, hook_log,
      response, leaving>>
stackInputs == <<st_header>>
otherVars == <<path, renderVars, recordVars, killVars, secretVars, envVars>>

InitStack ==
    /\ scope_type = "http"
    /\ path \in StackPaths
    /\ pre_hooks = <<>>
    /\ post_hooks = <<>>
    /\ pc = "outside"
    /\ response_started = FALSE
    /\ app_calls = <<>>
    /\ app_phase = "init"
    /\ app_bodies = 0
    /\ app_exc = NoContent
    /\ transport = <<>>
    /\ handler_calls = <<>>
    /\ hooks_done = 0
    /\ hook_awaited = FALSE
    /\ hook_log = <<>>
    /\ response = NoResponse
    /\ leaving = NotLeft
    /\ IdleRender
    /\ origin = "main"
    /\ IdleRecord
    /\ kill_switch_config_path \in ConfigPaths
    /\ IdleKillSwitch
    /\ IdleSecretManager
    /\ IdleEnvironment
    /\ st_depth = 0
    /\ st_dir = "down"
    /\ st_result = NoResult
    /\ st_header \in RequestIdHeaders
    /\ st_request_id = None
    /\ st_log = <<>>
    /\ st_route_calls = 0
    /\ st_sent = <<>>

\* the request enters the layer at depth d: UnhandledExceptionsMiddleware.__call__ starts
EnterLayer(d) ==
    /\ st_depth' = d
    /\ pc' = IF Layer(d) = "UnhandledExceptionsMiddleware" THEN "call" ELSE pc

\* the layer ends with an outcome, which its caller receives
Ascend(result) ==
    /\ st_dir' = "up"
    /\ st_depth' = st_depth - 1
    /\ st_result' = result

\* a layer that hands the request on: the server, a middleware that only adds headers,
\* UnhandledExceptionsMiddleware once it has called its wrapped app
PassDown ==
    /\ st_dir = "down"
    /\ \/ Layer(st_depth) \in {"server", "PrometheusInstrumentatorMiddleware",
                               "TraceabilityMiddleware", "CORSMiddleware"}
       \/ Layer(st_depth) = "UnhandledExceptionsMiddleware" /\ pc = "app"
    /\ EnterLayer(st_depth + 1)
    /\ UNCHANGED <<mwButPc, otherVars, stackInputs, st_sent, st_dir, st_result, st_request_id,
                   st_log, st_route_calls>>

\* HttpLoggingMiddleware.dispatch up to its first await: an excluded path is handed to
\* call_next; for another path the request id is the header or a new uuid, and dispatch
\* awaits request.body()
LoggingDispatch ==
    /\ st_dir = "down"
    /\ Layer(st_depth) = "HttpLoggingMiddleware"
    /\ IF IsExcluded(path, MainLoggingExcludePaths)
       THEN /\ EnterLayer(st_depth + 1)
            /\ UNCHANGED <<st_dir, st_request_id>>
       ELSE \E generated \in GeneratedIds :
               /\ st_request_id' = IF st_header # None THEN st_header ELSE StrV(generated)
               /\ st_dir' = "request_body"
               /\ UNCHANGED <<st_depth, pc>>
    /\ UNCHANGED <<mwButPc, otherVars, stackInputs, st_sent, st_result, st_log, st_route_calls>>

\* dispatch after request.body(), whose exception it catches: the INCOMING REQUEST record
\* carries the request id, and dispatch awaits call_next
LoggingIncoming ==
    /\ st_dir = "request_body"
    /\ st_log' = Append(st_log, LogRecord("INCOMING REQUEST", st_request_id))
    /\ st_dir' = "down"
    /\ EnterLayer(st_depth + 1)
    /\ UNCHANGED <<mwButPc, otherVars, stackInputs, st_sent, st_result, st_request_id,
                   st_route_calls>>

\* KillSwitchMiddleware.dispatch up to its return or its await of call_next
KillDispatch ==
    /\ st_dir = "down"
    /\ Layer(st_depth) = "KillSwitchMiddleware"
    /\ IF IsExcluded(path, MainExcludePaths)
       THEN EnterLayer(st_depth + 1) /\ UNCHANGED <<st_dir, st_result>>
       ELSE LET config == KillSwitchConfig_load
            IN  IF config.raised # NoRaise
                THEN /\ Ascend(RaiseResult(collapse_excgroups(KillSwitchFault(config))))
                     /\ pc' = pc
                ELSE IF config.enabled
                THEN /\ Ascend(ResponseResult(
                                  to_response(ProblemException(None, None, IntV(503),
                                                               StrV(KillSwitchMessage),
                                                               None, None).p), None))
                     /\ pc' = pc
                ELSE EnterLayer(st_depth + 1) /\ UNCHANGED <<st_dir, st_result>>
    /\ UNCHANGED <<mwButPc, otherVars, stackInputs, st_sent, st_request_id, st_log, st_route_calls>>

\* the router: the route function of the path runs, or the router answers itself
Route ==
    /\ st_dir = "down"
    /\ Layer(st_depth) = "route"
    /\ st_route_calls' = IF RouteMatches(path) THEN st_route_calls + 1 ELSE st_route_calls
    /\ Ascend(RouteOutcome(path))
    /\ UNCHANGED <<mwVars, otherVars, stackInputs, st_sent, st_request_id, st_log>>

\* the outcome of call_next leaves a BaseHTTPMiddleware: an exception leaves it through
\* collapse_excgroups
ThroughBaseHTTPMiddleware(result) ==
    IF result.kind = "raise" THEN RaiseResult(collapse_excgroups(result.exc)) ELSE result

\* a layer that hands the outcome on: KillSwitchMiddleware, whose dispatch returns what
\* call_next returned, and the middlewares that are no BaseHTTPMiddleware
PassUp ==
    /\ st_dir = "up"
    /\ Layer(st_depth) \in {"PrometheusInstrumentatorMiddleware", "TraceabilityMiddleware",
                            "CORSMiddleware", "KillSwitchMiddleware"}
    /\ st_depth' = st_depth - 1
    /\ st_result' = IF Layer(st_depth) = "KillSwitchMiddleware"
                    THEN ThroughBaseHTTPMiddleware(st_result)
                    ELSE st_result
    /\ UNCHANGED <<mwVars, otherVars, stackInputs, st_sent, st_dir, st_request_id, st_log,
                   st_route_calls>>

\* HttpLoggingMiddleware.dispatch after call_next: an exception of call_next propagates,
\* and the response of an excluded path is returned as it is; another response gets the
\* x-request-id header, and dispatch awaits the chunks of its body_iterator
LoggingReturn ==
    /\ st_dir = "up"
    /\ Layer(st_depth) = "HttpLoggingMiddleware"
    /\ IF IsExcluded(path, MainLoggingExcludePaths) \/ st_result.kind = "raise"
       THEN /\ st_result' = ThroughBaseHTTPMiddleware(st_result)
            /\ st_depth' = st_depth - 1
            /\ st_dir' = st_dir
       ELSE /\ st_result' = [st_result EXCEPT !.request_id = st_request_id]
            /\ st_dir' = "body_iterator"
            /\ st_depth' = st_depth
    /\ UNCHANGED <<mwVars, otherVars, stackInputs, st_sent, st_log, st_request_id,
                   st_route_calls>>

\* dispatch after the chunks were read: the first chunk, which is UTF-8 text for every
\* response of the application, is decoded, the OUTGOING RESPONSE record is logged and
\* the response is returned
LoggingOutgoing ==
    /\ st_dir = "body_iterator"
    /\ st_log' = Append(st_log, LogRecord("OUTGOING RESPONSE", st_request_id))
    /\ st_dir' = "up"
    /\ st_depth' = st_depth - 1
    /\ UNCHANGED <<mwVars, otherVars, stackInputs, st_sent, st_result, st_request_id,
                   st_route_calls>>

\* the exception of the layers below reaches the except clause of
\* UnhandledExceptionsMiddleware.__call__
StackRaise ==
    /\ st_dir = "up"
    /\ Layer(st_depth) = "UnhandledExceptionsMiddleware"
    /\ pc = "app"
    /\ st_result.kind = "raise"
    /\ AppRaised(st_result.exc)
    /\ st_dir' = "caught"
    /\ UNCHANGED <<scope_type, pre_hooks, post_hooks, response_started, app_calls, app_phase,
                   app_bodies, transport, handler_calls, hooks_done, hook_awaited, hook_log,
                   response, otherVars, stackInputs, st_sent, st_depth, st_result, st_request_id,
                   st_log, st_route_calls>>

\* the body messages of a response that left a BaseHTTPMiddleware, which streams the
\* response of call_next: one message for the body unless it is empty, and the empty
\* message that ends the stream
StreamedBodies(r) == (IF r.body = "" THEN <<>> ELSE <<r.body>>) \o <<"">>

\* the response of the layers below is sent through _send: its start, then its body
\* messages; the transport's send accepts a message or raises
StackSend ==
    /\ st_dir = "up"
    /\ Layer(st_depth) = "UnhandledExceptionsMiddleware"
    /\ pc = "app"
    /\ st_result.kind = "response"
    /\ \/ app_phase = "init"
       \/ app_phase = "started" /\ app_bodies < Len(StreamedBodies(st_result.response))
    /\ LET message ==
             IF app_phase = "init"
             THEN Message("http.response.start", "app", st_result.response.status_code)
             ELSE Message("http.response.body", "app", None)
       IN  /\ response_started' = _send(message, response_started)
           /\ \/ /\ transport' = Append(transport, message)
                 /\ app_phase' = "started"
                 /\ app_bodies' = IF app_phase = "init" THEN 0 ELSE app_bodies + 1
                 /\ st_sent' = IF app_phase = "init"
                               THEN Append(st_sent, st_result.request_id)
                               ELSE st_sent
                 /\ UNCHANGED <<pc, app_exc, leaving, st_dir>>
              \/ /\ AppRaised(collapse_excgroups(SendError))
                 /\ st_dir' = "caught"
                 /\ UNCHANGED <<transport, app_phase, app_bodies, st_sent>>
    /\ UNCHANGED <<scope_type, pre_hooks, post_hooks, app_calls, handler_calls, hooks_done,
                   hook_awaited, hook_log, response, otherVars, stackInputs, st_depth,
                   st_result, st_request_id, st_log, st_route_calls>>

\* the layers below have returned, the last message of the response sent: __call__
\* returns
StackReturn ==
    /\ st_dir = "up"
    /\ Layer(st_depth) = "UnhandledExceptionsMiddleware"
    /\ pc = "app"
    /\ st_result.kind = "response"
    /\ app_phase = "started" /\ app_bodies = Len(StreamedBodies(st_result.response))
    /\ pc' = "done"
    /\ leaving' = Returns
    /\ UNCHANGED <<scope_type, pre_hooks, post_hooks, response_started, app_calls, app_phase,
                   app_bodies, app_exc, transport, handler_calls, hooks_done, hook_awaited,
                   hook_log, response, otherVars, stackVars>>

\* UnhandledExceptionsMiddleware.__call__ has ended: what it raised, or its return,
\* reaches its caller
StackLeave ==
    /\ st_dir \in {"up", "caught"}
    /\ Layer(st_depth) = "UnhandledExceptionsMiddleware"
    /\ pc = "done"
    /\ Ascend(IF leaving.how = "raise" THEN RaiseResult(leaving.exc) ELSE st_result)
    /\ UNCHANGED <<mwVars, otherVars, stackInputs, st_sent, st_request_id, st_log, st_route_calls>>

\* the outcome has reached the server
StackDone ==
    /\ st_dir = "up"
    /\ st_depth = 0
    /\ st_dir' = "done"
    /\ UNCHANGED <<mwVars, otherVars, stackInputs, st_sent, st_depth, st_result, st_request_id,
                   st_log, st_route_calls>>

NextStack ==
    \/ PassDown
    \/ Call
    \/ LoggingDispatch
    \/ LoggingIncoming
    \/ KillDispatch
    \/ Route
    \/ PassUp
    \/ LoggingReturn
    \/ LoggingOutgoing
    \/ StackRaise
    \/ StackSend
    \/ StackReturn
    \/ Except
    \/ Classify
    \/ HandlerReturn
    \/ SendResponse
    \/ Reraise
    \/ StackLeave
    \/ StackDone

SpecStack == InitStack /\ [][NextStack]_vars

(***************************************************************************)
(* Properties of UnhandledExceptionsMiddleware and of the exception handler*)
(* (specification Spec).                                                   *)
(***************************************************************************)
\* the messages of the middleware's own problem response, as Response.__call__ sends them
ProblemMessages(resp) ==
    << Message("http.response.start", "middleware", resp.status_code),
       Message("http.response.body", "middleware", None) >>

\* a start message of the wrapped app was passed on to the transport
StartPassed ==
    \E i \in 1..Len(transport) :
        transport[i].type = "http.response.start" /\ transport[i].by = "app"

\* the wrapped app raised in an http scope and the except clause has decided
Caught == scope_type = "http" /\ app_exc # NoContent /\ pc \notin {"app", "except"}

\* C1: in an http scope, when the wrapped app raises before a response start was
\* seen, the handler is invoked exactly once, with the request and that exception;
\* the response it returns is what the middleware sends (start, then body); and the
\* call ends with the app's exception re-raised, after that response was sent in full.
C1_ResponseSentThenReraised ==
    (Caught /\ ~response_started) =>
        /\ handler_calls = << [request |-> path, exc |-> app_exc] >>
        /\ leaving # Returns
        /\ pc = "send_start" => transport = <<>>
        /\ pc = "send_body" => transport = SubSeq(ProblemMessages(response), 1, 1)
        /\ pc \in {"reraise", "done"} =>
              /\ response.raised = NoRaise
              /\ response.branch # ""
              /\ transport = ProblemMessages(response)
        /\ pc = "done" => leaving = Raises(app_exc)

\* C2: in an http scope, when the wrapped app raises after its response start was
\* passed on, the handler is not invoked, the middleware sends no message of its
\* own, and the exception that leaves is the app's exception.
C2_NoSecondResponse ==
    (scope_type = "http" /\ app_exc # NoContent /\ StartPassed) =>
        /\ response_started
        /\ handler_calls = <<>>
        /\ hook_log = <<>>
        /\ response = NoResponse
        /\ \A i \in 1..Len(transport) : transport[i].by = "app"
        /\ Cardinality({i \in 1..Len(transport) :
                           transport[i].type = "http.response.start"}) = 1
        /\ pc \in {"except", "reraise", "done"}
        /\ pc = "done" => leaving = Raises(app_exc)

C2_Witness ==
    /\ scope_type = "http"
    /\ \E f \in AppFaults : app_exc = raise_from_None(f)
    /\ StartPassed
    /\ pc = "done"
    /\ leaving = Raises(app_exc)

\* C3: every exception that escapes the wrapped app in an http scope leaves the
\* middleware as that same exception, on every path through the hooks, the
\* classification and the sending of the problem response.
C3_OriginalFaultLeaves ==
    (scope_type = "http" /\ app_exc # NoContent /\ pc = "done") =>
        leaving = Raises(app_exc)

\* a hook of the handler raised
HookRaised ==
    \E i \in 1..Len(hook_log) :
        hook_log[i].phase \in {"pre", "post"} /\ hook_log[i].ev = "raise"

\* C4: an exception raised by a pre-hook or a post-hook never propagates out of the
\* handler, and the ProblemResponse of the original fault is still built and returned.
C4_HookFaultsSwallowed ==
    HookRaised =>
        /\ leaving # Raises(raise_during(HookError, app_exc))
        /\ pc = "done" => response # NoResponse

\* the events of a handler call that runs to its end, by phase, hook and outcome
RECURSIVE HookSteps(_, _, _)
HookSteps(phase, hooks, i) ==
    IF i > Len(hooks) THEN <<>>
    ELSE << <<phase, hooks[i].id, "start">>, <<phase, hooks[i].id, "end">> >>
         \o HookSteps(phase, hooks, i + 1)

ExpectedLog ==
    HookSteps("pre", pre_hooks, 1) \o << <<"classify", 0, "end">> >>
    \o HookSteps("post", post_hooks, 1) \o << <<"return", 0, "end">> >>

\* the number of the hooks of a phase that have run to their end
Completed(phase) ==
    Cardinality({i \in 1..Len(hook_log) :
                    hook_log[i].phase = phase /\ hook_log[i].ev = "end"})

\* C5: the hooks run one at a time in registration order (a hook has ended before
\* the next starts); every pre-hook has completed before the ProblemResponse is
\* constructed; every post-hook has completed, having received the request, the
\* built response and the fault, before the handler returns and before the
\* middleware sends the response.
C5_HookOrder ==
    /\ Len(hook_log) <= Len(ExpectedLog)
    /\ \A k \in 1..Len(hook_log) :
          LET e == hook_log[k]
              x == ExpectedLog[k]
          IN  /\ e.phase = x[1] /\ e.id = x[2]
              /\ e.ev = x[3] \/ (e.ev = "raise" /\ x[3] = "end" /\ k = Len(hook_log))
              /\ e.request = path /\ e.exc = app_exc
              /\ e.phase = "pre" => e.response = NoResponse
              /\ e.phase = "post" => (e.response = response /\ response # NoResponse)
    /\ response # NoResponse => Completed("pre") = Len(pre_hooks)
    /\ (pc \in {"send_start", "send_body"} \/ (pc = "reraise" /\ handler_calls # <<>>)) =>
          (Completed("post") = Len(post_hooks) /\ Completed("return") = 1)
    /\ (\E i \in 1..Len(transport) : transport[i].by = "middleware") =>
          (Completed("post") = Len(post_hooks) /\ Completed("return") = 1)

C5_Witness ==
    /\ pc = "done"
    /\ Len(pre_hooks) = 2 /\ Len(post_hooks) = 2
    /\ pre_hooks[1].is_async /\ ~pre_hooks[2].is_async
    /\ ~post_hooks[1].is_async /\ post_hooks[2].is_async
    /\ Completed("pre") = 2 /\ Completed("post") = 2
    /\ transport = ProblemMessages(response)
    /\ leaving = Raises(app_exc)

\* C6: for a scope that is not http the wrapped app is called exactly once, with
\* the original send; the handler is never invoked; the middleware sends nothing of
\* its own; and what the app raises leaves unmodified.
C6_NonHttpPassThrough ==
    scope_type # "http" =>
        /\ pc # "call" => app_calls = <<"send">>
        /\ pc = "call" => app_calls = <<>>
        /\ handler_calls = <<>>
        /\ hook_log = <<>>
        /\ response = NoResponse
        /\ ~response_started
        /\ \A i \in 1..Len(transport) : transport[i].by = "app"
        /\ pc \in {"call", "app", "done"}
        /\ pc = "done" =>
              leaving = IF app_exc = NoContent THEN Returns ELSE Raises(app_exc)

C6_Witness ==
    /\ scope_type = "websocket"
    /\ pc = "done"
    /\ app_exc \in AppFaults
    /\ Len(transport) >= 1
    /\ leaving = Raises(app_exc)

(***************************************************************************)
(* Properties of ProblemResponse (specification SpecRender).               *)
(***************************************************************************)
\* the kinds render is to test, in their order of precedence
Precedence ==
    <<"ProblemException", "dict", "HTTPException", "RequestValidationError", "Exception">>

\* the first kind of the precedence order that the content matches
FirstMatch(kinds) ==
    IF \E i \in 1..Len(Precedence) : Precedence[i] \in kinds
    THEN Precedence[CHOOSE i \in 1..Len(Precedence) :
                       /\ Precedence[i] \in kinds
                       /\ \A j \in 1..(i - 1) : Precedence[j] \notin kinds]
    ELSE "else"

IsRendered == rendered.branch # ""

\* C7: render selects its branch in the precedence order ProblemException, dict,
\* HTTPException, RequestValidationError, Exception; a fault of several kinds is
\* handled by the first matching branch only, and the one problem record of the
\* response is the record of that branch.
C7_BranchPrecedence ==
    IsRendered =>
        /\ rendered.branch = FirstMatch(content.kinds)
        /\ rendered.raised = NoRaise =>
              /\ rendered.branch = "ProblemException" => rendered.problem = content.pe
              /\ rendered.branch = "dict" => "dict" \in content.kinds
              /\ rendered.branch = "HTTPException" =>
                    rendered.problem.type = StrV("exception:http")
              /\ rendered.branch = "RequestValidationError" =>
                    rendered.problem.type = StrV("exception:validation")
              /\ rendered.branch = "Exception" =>
                    rendered.problem.type = StrV("exception:uncaught")

C7_Witness ==
    /\ IsRendered
    /\ {"ProblemException", "HTTPException", "RequestValidationError"} \subseteq content.kinds
    /\ rendered.branch = "ProblemException"
    /\ rendered.problem = content.pe
    /\ rendered.problem.type # StrV("exception:http")

\* C8: building the ProblemResponse never raises, whatever the content, and a
\* fault recognised by none of the branches 1-4 is classified as
\* "exception:uncaught" with status 500.
C8_ClassificationNeverFaults ==
    IsRendered =>
        /\ rendered.raised = NoRaise
        /\ rendered.branch = "Exception" =>
              /\ rendered.problem.type = StrV("exception:uncaught")
              /\ rendered.problem.status = IntV(500)

\* C9 as claimed: a ProblemException passes through with type, title, status, detail
\* and errors unchanged, and its instance is the request path if and only if the
\* fault's instance is absent.
C9_InstanceFilledWhenAbsent ==
    (IsRendered /\ rendered.branch = "ProblemException") =>
        rendered.problem =
            [content.pe EXCEPT !.instance = IF Truthy(@) THEN @ ELSE StrV(path)]

\* C9 as amended: a ProblemException passes through with type, title, status,
\* detail, errors and instance all unchanged: an absent instance stays absent, and
\* the response takes the status of the fault.
C9_PassedThroughUnchanged ==
    (IsRendered /\ rendered.branch = "ProblemException") =>
        /\ rendered.raised = NoRaise
        /\ rendered.problem = content.pe
        /\ rendered.status_code = content.pe.status

C9_Witness ==
    /\ IsRendered
    /\ rendered.branch = "ProblemException"
    /\ content.pe.instance = None
    /\ rendered.problem.instance = None
    /\ content.pe.detail # None

\* the arguments of a dict that are parameters of ProblemException.__init__
KnownArgs(data) == SelectSeq(data, LAMBDA kv : kv[1] \in InitParams)

\* C10: a dict is turned into a problem record with its keys as constructor
\* arguments and the request path as instance when it gives none; keys that are no
\* record fields do not make the construction fail.
C10_DictUnknownKeysAccepted ==
    (IsRendered /\ rendered.branch = "dict"
       /\ as_dict(KnownArgs(content.data), path).raised = NoRaise) =>
        /\ rendered.raised = NoRaise
        /\ rendered.problem = as_dict(KnownArgs(content.data), path).p

\* the decoded body of the rendered ProblemResponse
RenderedBody == json_loads(rendered.body)

\* an HTTPException was rendered whose status code has a standard reason phrase
HttpCase ==
    /\ IsRendered
    /\ rendered.branch = "HTTPException"
    /\ IsHTTPStatus(content.status_code)

\* the record of an HTTPException with status code s and detail d on path p
HttpRecord ==
    [type |-> StrV("exception:http"),
     title |-> StrV(HTTPStatusPhrase(content.status_code.n)),
     status |-> content.status_code, detail |-> content.detail,
     instance |-> StrV(path), errors |-> ListV(<<>>)]

\* the errors of the record are the entries the caller of as_http_exception supplies
SuppliedErrorsKept ==
    \A q \in SeqsUpTo(ViolationEntries, 1) \ {<<>>} :
        LET r == as_http_exception(content, path, ListV(q))
        IN  r.raised = NoRaise /\ r.p = [HttpRecord EXCEPT !.errors = ListV(q)]

\* C11 as claimed: an HTTPException with status code s and detail d on path p gives
\* the record with type "exception:http", status s, the reason phrase of s as title,
\* detail d, instance p and the supplied errors or none; with no errors the body has
\* exactly the keys type, title, status, detail and instance.
C11_HttpBodyHasFiveKeys ==
    HttpCase =>
        /\ rendered.raised = NoRaise
        /\ rendered.problem = HttpRecord
        /\ SuppliedErrorsKept
        /\ BodyKeys(RenderedBody) = {"type", "title", "status", "detail", "instance"}

\* C11 as amended: the record is as claimed; with no errors the body has the keys
\* type, title, status and instance, and the key detail exactly when d is not empty.
C11_HttpBodyOmitsEmptyDetail ==
    HttpCase =>
        /\ rendered.raised = NoRaise
        /\ rendered.problem = HttpRecord
        /\ SuppliedErrorsKept
        /\ BodyKeys(RenderedBody) =
              {"type", "title", "status", "instance"}
              \cup (IF content.detail.s # "" THEN {"detail"} ELSE {})
        /\ BodyGet(RenderedBody, "type") = StrV("exception:http")
        /\ BodyGet(RenderedBody, "title") = HttpRecord.title
        /\ BodyGet(RenderedBody, "status") = content.status_code
        /\ BodyGet(RenderedBody, "instance") = StrV(path)
        /\ content.detail.s # "" => BodyGet(RenderedBody, "detail") = content.detail

C11_Witness ==
    /\ HttpCase
    /\ content.status_code = IntV(404)
    /\ content.detail = StrV("")
    /\ path = "/widgets/9"
    /\ rendered.problem.title = StrV("Not Found")
    /\ BodyKeys(RenderedBody) = {"type", "title", "status", "instance"}

\* a RequestValidationError was rendered
ValidationCase == IsRendered /\ rendered.branch = "RequestValidationError"

\* the record of a RequestValidationError with the violations q on path p
ValidationRecord ==
    [type |-> StrV("exception:validation"), title |-> StrV("Validation Error"),
     status |-> IntV(422), detail |-> StrV(ValidationDetail),
     instance |-> StrV(path), errors |-> ListV(content.verrors)]

RECURSIVE JsonDecoded(_)
\* what json.loads gives for the text json.dumps wrote of a value: a tuple comes back
\* as a list
JsonDecoded(v) ==
    CASE v.t \in {"list", "tuple"} -> ListV([i \in 1..Len(v.l) |-> JsonDecoded(v.l[i])])
      [] v.t = "dict" ->
            DictV([i \in 1..Len(v.d) |-> <<v.d[i][1], JsonDecoded(v.d[i][2])>>])
      [] OTHER -> v

\* C12: a RequestValidationError with N violations, N >= 0, on path p gives type
\* "exception:validation", title "Validation Error", status 422, the fixed detail and
\* instance p, and the errors array of the body has exactly the N violations, in
\* their order.
C12_ErrorsArrayForAnyN ==
    ValidationCase =>
        /\ rendered.raised = NoRaise
        /\ rendered.problem = ValidationRecord
        /\ rendered.status_code = IntV(422)
        /\ "errors" \in BodyKeys(RenderedBody)
        /\ BodyGet(RenderedBody, "errors") = JsonDecoded(ListV(content.verrors))

\* an exception of none of the recognised kinds was rendered
UncaughtCase == IsRendered /\ rendered.branch = "Exception"

ErrorKeys(entry) == {entry.d[i][1] : i \in 1..Len(entry.d)}
ErrorGet(entry, k) == (CHOOSE kv \in {entry.d[i] : i \in 1..Len(entry.d)} : kv[1] = k)[2]

\* the fields of the uncaught record other than its errors
UncaughtFields ==
    /\ rendered.raised = NoRaise
    /\ rendered.status_code = IntV(500)
    /\ rendered.problem.type = StrV("exception:uncaught")
    /\ rendered.problem.status = IntV(500)
    /\ rendered.problem.title = StrV("Internal Server Error")
    /\ rendered.problem.detail = StrV(UncaughtDetail)
    /\ rendered.problem.instance = StrV(path)
    /\ BodyKeys(RenderedBody) = {"type", "title", "status", "detail", "instance", "errors"}
    /\ BodyGet(RenderedBody, "errors") = rendered.problem.errors
    /\ Len(rendered.problem.errors.l) = 1

\* C13 as claimed: any other exception, with any message, on path p gives type
\* "exception:uncaught", status 500, title "Internal Server Error", the fixed detail,
\* instance p and a single errors entry with all of the keys exception_type,
\* exception_message and exception_stack_trace.
C13_EntryHasAllThreeKeys ==
    UncaughtCase =>
        /\ UncaughtFields
        /\ ErrorKeys(rendered.problem.errors.l[1]) =
              {"exception_type", "exception_message", "exception_stack_trace"}

\* C13 as amended: the record is as claimed, and its single errors entry has the
\* keys exception_type (the class name) and exception_stack_trace, and the key
\* exception_message (the message) exactly when the message is not empty.
C13_EntryOmitsEmptyMessage ==
    UncaughtCase =>
        /\ UncaughtFields
        /\ LET entry == BodyGet(RenderedBody, "errors").l[1]
           IN  /\ ErrorKeys(entry) =
                     {"exception_type", "exception_stack_trace"}
                     \cup (IF content.msg # "" THEN {"exception_message"} ELSE {})
               /\ ErrorGet(entry, "exception_type") = StrV(content.cls)
               /\ ErrorGet(entry, "exception_stack_trace") =
                     StrV(format_exception(content.cls, content, content.tb))
               /\ content.msg # "" =>
                     ErrorGet(entry, "exception_message") = StrV(content.msg)

C13_Witness ==
    /\ UncaughtCase
    /\ content.msg = ""
    /\ content.cls = "ValueError"
    /\ ErrorKeys(rendered.problem.errors.l[1]) = {"exception_type", "exception_stack_trace"}

\* the decoded body of the Response of to_response()
ReturnedBody == json_loads(returned.body)

\* from_domain_exception has returned
DomainCase == origin = "from_domain_exception" /\ record # Unbuilt

\* the domain classes the fault is an instance of
Variants == content.kinds \cap DomainClasses

\* C14: from_domain_exception maps a ValidationFailureError to 400, a NotFoundError
\* to 404, a ConflictValueError to 409 and any other exception to 500; the status
\* code of the response is that status, the detail of its problem is str(fault) and
\* its instance is the supplied identifier.
C14_DomainFaultStatus ==
    DomainCase =>
        /\ record.raised = NoRaise
        /\ returned.raised = NoRaise
        /\ Variants = {"ValidationFailureError"} => record.p.status = IntV(400)
        /\ Variants = {"NotFoundError"} => record.p.status = IntV(404)
        /\ Variants = {"ConflictValueError"} => record.p.status = IntV(409)
        /\ Variants = {} => record.p.status = IntV(500)
        /\ returned.status_code = record.p.status
        /\ BodyGet(ReturnedBody, "status") = record.p.status
        /\ record.p.detail = StrV(content.msg)
        /\ content.msg # "" => BodyGet(ReturnedBody, "detail") = StrV(content.msg)
        /\ record.p.instance = args.instance
        /\ BodyGet(ReturnedBody, "instance") = args.instance

C14_Witness ==
    /\ DomainCase
    /\ content.cls = "NotFoundError"
    /\ content.msg = "Widget 9 not found."
    /\ args.instance = StrV("/widgets/9")
    /\ returned.status_code = IntV(404)
    /\ BodyGet(ReturnedBody, "detail") = StrV("Widget 9 not found.")

(***************************************************************************)
(* Properties of the ProblemException record and of its serialisation.     *)
(***************************************************************************)
\* to_bytes() or to_response() of a constructed record has returned
SerialisedCase ==
    /\ origin = "ProblemException"
    /\ returned.branch \in {"to_bytes", "to_response"}
    /\ returned.raised = NoRaise

\* ProblemResponse(request, content) has returned
RenderedCase == IsRendered /\ rendered.raised = NoRaise

\* the body b has a key for exactly the fields of fs that are not empty in p, and
\* none of its values is empty
KeysOfNonEmpty(p, b, fs) ==
    /\ \A f \in fs : f \in BodyKeys(b) <=> Truthy(p[f])
    /\ BodyKeys(b) \subseteq Fields
    /\ \A k \in BodyKeys(b) : Truthy(BodyGet(b, k))

\* C15 as claimed: the body has a key only for the fields that are not empty (no
\* null, "" or []), except status, which is present in every body, also after a
\* field was set to an empty value post-construction.
C15_StatusInEveryBody ==
    /\ SerialisedCase =>
          /\ KeysOfNonEmpty(record.p, ReturnedBody, Fields \ {"status"})
          /\ "status" \in BodyKeys(ReturnedBody)
    /\ RenderedCase =>
          /\ KeysOfNonEmpty(rendered.problem, RenderedBody, Fields \ {"status"})
          /\ "status" \in BodyKeys(RenderedBody)

\* the status was set after construction
StatusSet == \E i \in 1..Len(sets) : sets[i][1] = "status"

\* C15 as amended: the body has a key for exactly the fields that are not empty,
\* status included; the status of a record is not empty as long as it was not set
\* post-construction, so that the body of such a record has the key status.
C15_NonEmptyFieldsOnly ==
    /\ SerialisedCase =>
          /\ KeysOfNonEmpty(record.p, ReturnedBody, Fields)
          /\ ~StatusSet => "status" \in BodyKeys(ReturnedBody)
          /\ StatusSet => "status" \notin BodyKeys(ReturnedBody)
    /\ RenderedCase =>
          /\ KeysOfNonEmpty(rendered.problem, RenderedBody, Fields)
          /\ "status" \in BodyKeys(RenderedBody)

C15_Witness ==
    /\ SerialisedCase
    /\ returned.branch = "to_bytes"
    /\ args.status = IntV(404)
    /\ args.detail = StrV("Out of tea.")
    /\ sets = << <<"status", IntV(0)>> >>
    /\ BodyKeys(ReturnedBody) = {"type", "title", "detail"}

\* a record for which only the status was supplied has been serialised
OnlyStatusCase ==
    /\ SerialisedCase
    /\ sets = <<>>
    /\ Truthy(args.status)
    /\ args = [NoProblem EXCEPT !.status = args.status]

\* C16 as claimed: the body of a record for which only status was supplied has the
\* single key status.
C16_OnlyStatusKey ==
    OnlyStatusCase => ReturnedBody = << <<"status", args.status>> >>

\* C16 as amended: the body of a record for which only status was supplied has the
\* keys type, title and status, with the default type and the reason phrase of the
\* status as title.
C16_DefaultsAreRendered ==
    OnlyStatusCase =>
        /\ IsHTTPStatus(args.status)
        /\ ReturnedBody = << <<"type", StrV("exception:problem")>>,
                             <<"title", StrV(HTTPStatusPhrase(args.status.n))>>,
                             <<"status", args.status>> >>
        /\ returned.body =
              "{\"type\":\"exception:problem\",\"title\":\""
              \o HTTPStatusPhrase(args.status.n) \o "\",\"status\":"
              \o IntToStr(args.status.n) \o "}"

C16_Witness ==
    /\ OnlyStatusCase
    /\ args.status = IntV(404)
    /\ returned.body = "{\"type\":\"exception:problem\",\"title\":\"Not Found\",\"status\":404}"

\* the body b gives every non-empty field of p its value in p, and has no other key
DecodesToOriginal(p, b) ==
    \A f \in Fields :
        IF Truthy(p[f]) THEN f \in BodyKeys(b) /\ BodyGet(b, f) = p[f]
        ELSE f \notin BodyKeys(b)

\* C17 as claimed: decoding to_bytes() gives, for each non-empty field, exactly the
\* value of the record, also for a detail that was not supplied as a string, and no
\* key for the empty fields.
C17_RoundTripExact ==
    /\ SerialisedCase => DecodesToOriginal(record.p, ReturnedBody)
    /\ RenderedCase => DecodesToOriginal(rendered.problem, RenderedBody)

\* the value to_dict writes for the field f of value v
Written(f, v) ==
    IF f = "status" THEN IntV(PyInt(v))
    ELSE IF f = "errors" THEN JsonDecoded(v)
    ELSE StrV(PyStr(v))

\* the body b gives every non-empty field of p its written value, which is the
\* value in p when that is a string (an int for the status, for the errors a list
\* that holds no tuple)
DecodesToWritten(p, b) ==
    \A f \in Fields :
        IF Truthy(p[f])
        THEN /\ f \in BodyKeys(b)
             /\ BodyGet(b, f) = Written(f, p[f])
             /\ (/\ p[f].t = (IF f = "status" THEN "int"
                             ELSE IF f = "errors" THEN "list" ELSE "str")
                 /\ JsonDecoded(p[f]) = p[f])
                   => BodyGet(b, f) = p[f]
        ELSE f \notin BodyKeys(b)

\* C17 as amended: decoding to_bytes() gives, for each non-empty field, str() of the
\* value of type, title, detail and instance, int() of the status and the errors
\* list with the tuples in it as lists, hence exactly the value of the record when
\* it has that type, and no key for the empty fields.
C17_RoundTripOfWrittenValues ==
    /\ SerialisedCase => DecodesToWritten(record.p, ReturnedBody)
    /\ RenderedCase => DecodesToWritten(rendered.problem, RenderedBody)

C17_Witness ==
    /\ SerialisedCase
    /\ returned.branch = "to_bytes"
    /\ record.p.detail = IntV(404)
    /\ record.p.errors # None
    /\ BodyGet(ReturnedBody, "detail") = StrV("404")
    /\ BodyGet(ReturnedBody, "errors") = record.p.errors

\* C18: every problem response, of ProblemResponse(request, exc) and of
\* ProblemException.to_response(), has the status of its record as status code and
\* the media type application/problem+json.
C18_StatusCodeOfRecord ==
    /\ (returned.branch = "to_response" /\ returned.raised = NoRaise) =>
          /\ returned.status_code = record.p.status
          /\ returned.media_type = "application/problem+json"
          /\ Truthy(record.p.status) =>
                BodyGet(ReturnedBody, "status") = IntV(PyInt(returned.status_code))
    /\ RenderedCase =>
          /\ rendered.status_code = rendered.problem.status
          /\ rendered.media_type = "application/problem+json"
          /\ BodyGet(RenderedBody, "status") = IntV(PyInt(rendered.status_code))

C18_Witness ==
    /\ SerialisedCase
    /\ returned.branch = "to_response"
    /\ record.p.status = IntV(404)
    /\ returned.status_code = IntV(404)
    /\ returned.media_type = "application/problem+json"

\* ProblemException(...) has returned and no field was set since
ConstructedCase ==
    /\ origin = "ProblemException"
    /\ record # Unbuilt
    /\ record.raised = NoRaise
    /\ sets = <<>>

\* the defaults of type and title
DefaultsSubstituted ==
    /\ Truthy(record.p.type)
    /\ record.p.type = (IF Truthy(args.type) THEN args.type ELSE StrV("exception:problem"))
    /\ Truthy(record.p.title)
    /\ Truthy(args.title) => record.p.title = args.title
    /\ (~Truthy(args.title) /\ IsHTTPStatus(record.p.status)) =>
          record.p.title = StrV(HTTPStatusPhrase(record.p.status.n))

\* C19 as claimed: every constructed record has a valid HTTP status integer as
\* status (500 when none was supplied), a type that is not empty (the default token
\* when none was supplied) and a title that is not empty (the reason phrase of the
\* status when none was supplied), for every combination of arguments.
C19_StatusAlwaysValid ==
    ConstructedCase =>
        /\ IsHTTPStatus(record.p.status)
        /\ ~Truthy(args.status) => record.p.status = IntV(500)
        /\ DefaultsSubstituted

\* C19 as amended: every constructed record has a status that is not empty (the
\* supplied status, 500 when none was supplied), which is a valid HTTP status
\* integer when no title was supplied, a type that is not empty and a title that is
\* not empty, with the defaults as claimed.
C19_DefaultsSubstituted ==
    ConstructedCase =>
        /\ Truthy(record.p.status)
        /\ record.p.status = (IF Truthy(args.status) THEN args.status ELSE IntV(500))
        /\ ~Truthy(args.title) => IsHTTPStatus(record.p.status)
        /\ DefaultsSubstituted
        /\ record.p.detail = args.detail
        /\ record.p.instance = args.instance
        /\ record.p.errors = args.errors

C19_Witness ==
    /\ ConstructedCase
    /\ args.status = IntV(999)
    /\ args.title = StrV("Teapot")
    /\ args.type = None
    /\ record.p.status = IntV(999)
    /\ record.p.type = StrV("exception:problem")

(***************************************************************************)
(* Properties of KillSwitchMiddleware (specification SpecKillSwitch).      *)
(***************************************************************************)
\* the text sub occurs in the text s
Contains(s, sub) ==
    \E i \in 1..(Len(s) - Len(sub) + 1) : SubSeq(s, i, i + Len(sub) - 1) = sub

\* the answer e is the 503 problem response of the kill switch, given without a
\* call of the downstream handler
IsKillSwitchAnswer(e) ==
    /\ e.downstream = 0
    /\ e.response.status_code = IntV(503)
    /\ e.response.media_type = "application/problem+json"
    /\ BodyGet(json_loads(e.response.body), "status") = IntV(503)
    /\ Contains(BodyGet(json_loads(e.response.body), "detail").s,
                "Kill-Switch is enabled. Please contact the service owner for more information")

\* the answer e is the answer of the downstream handler, called once
IsServed(e) == e.downstream = 1 /\ e.response = DownstreamResponse

\* the answer e is the exception of KillSwitchConfig.load(), raised without a call of
\* the downstream handler
IsLoadFailure(e) ==
    /\ e.raised = e.config.raised
    /\ e.downstream = 0
    /\ e.response = NoResponse

\* C20: every request to a path that is not excluded is decided from the kill-switch
\* configuration as it is when the request is dispatched: enabled, the answer is the
\* 503 problem response with the kill-switch detail and the downstream handler is
\* not invoked; disabled, the request is served; so that after a switch to enabled
\* every later request gets 503 and after a switch back later requests are served.
\* A configuration that cannot be loaded makes dispatch raise the error of the load.
C20_DecidedFromCurrentConfig ==
    /\ \A i \in 1..Len(ks_log) :
          LET e == ks_log[i]
          IN  ~IsExcluded(e.path, exclude_paths) =>
                  IF e.config.raised # NoRaise THEN IsLoadFailure(e)
                  ELSE IF e.config.enabled THEN e.raised = NoRaise /\ IsKillSwitchAnswer(e)
                  ELSE e.raised = NoRaise /\ IsServed(e)
    /\ (ks_pc # "idle" /\ ~IsExcluded(ks_path, exclude_paths)) =>
          IF ks_config.raised # NoRaise THEN ks_pc = "raise" /\ ks_downstream = 0
          ELSE IF ks_config.enabled THEN ks_pc = "return" /\ ks_downstream = 0
          ELSE ks_pc \in {"call_next", "return"}

\* served from the resource whose flag is not set, answered 503 after the switch to the
\* resource whose flag is set, served again after the switch back
C20_Witness ==
    /\ Len(ks_log) = 3
    /\ \A i \in 1..3 : ~IsExcluded(ks_log[i].path, exclude_paths)
    /\ \A i \in 1..3 : ks_log[i].config.raised = NoRaise
    /\ IsServed(ks_log[1]) /\ ~ks_log[1].config.enabled
    /\ IsKillSwitchAnswer(ks_log[2]) /\ ks_log[2].config.enabled
    /\ IsServed(ks_log[3]) /\ ~ks_log[3].config.enabled
    /\ kill_switch_config_path = UnitConfigDisabledJson

\* the path p equals one of the excluded paths, trailing slashes removed from both
MatchesExcluded(p) ==
    \E i \in 1..Len(exclude_paths) : rstrip(p, "/") = rstrip(exclude_paths[i], "/")

\* the configuration was loaded and its flag is not set
Disabled(config) == config.raised = NoRaise /\ ~config.enabled

\* C21: a request whose path equals an excluded path, compared after removing the
\* trailing slashes of both, is passed to the downstream handler whether the kill
\* switch is enabled or not (and whether its configuration can be loaded or not); and
\* when the kill switch is disabled every request is passed downstream; the
\* downstream response is returned unchanged.
C21_ExcludedAndDisabledPassThrough ==
    /\ \A i \in 1..Len(ks_log) :
          (MatchesExcluded(ks_log[i].path) \/ Disabled(ks_log[i].config)) =>
              ks_log[i].raised = NoRaise /\ IsServed(ks_log[i])
    /\ (ks_pc # "idle" /\ (MatchesExcluded(ks_path) \/ Disabled(ks_config))) =>
          \/ ks_pc = "call_next" /\ ks_downstream = 0
          \/ ks_pc = "return" /\ ks_downstream = 1 /\ ks_response = DownstreamResponse

\* an excluded path served while the flag was set, another path served from the resource
\* whose flag is not set, and an excluded path served while the path named no file
C21_Witness ==
    /\ exclude_paths = MainExcludePaths
    /\ Len(ks_log) = 3
    /\ ks_log[1].path = "/docs/" /\ ks_log[1].config.enabled /\ IsServed(ks_log[1])
    /\ ks_log[2].path = "/ready/" /\ Disabled(ks_log[2].config) /\ IsServed(ks_log[2])
    /\ ks_log[3].path = "/docs" /\ ks_log[3].config.raised = "FileNotFoundError"
    /\ IsServed(ks_log[3])

(***************************************************************************)
(* Properties of SecretManager.get_secret (specification SpecSecretManager)*)
(***************************************************************************)
\* the TTL is configured: the variable is set to a number of seconds
TtlConfigured == ttl_env # None /\ IsDigits(ttl_env.s)

\* the thread takes a step of its call of get_secret from the position pc
SecretStep(t, pc_before) ==
    sm_threads[t].pc = pc_before /\ sm_threads'[t].pc # pc_before

\* the age of the entry the call read, the current time of the call minus the timestamp
\* of the entry, is less than the TTL
FreshEntry(call) == call.current_time - call.cache_timestamp < TtlSeconds(ttl_env)

\* C22: get_secret(name) goes to the backend when the cache holds no entry for name;
\* when it holds one, the call reads that entry and, with a configured TTL, returns the
\* value read without calling the backend exactly when the age of the entry read (the
\* current time of the call minus the timestamp read) is strictly less than the TTL, and
\* goes to the backend otherwise; having gone to the backend it stores, when the backend
\* answers, (fetched value, current time of the call) under name and returns the fetched
\* value. The cache is written by the store alone.
C22_CachedIffFresh ==
    [][\A t \in SecretThreads :
        LET call == sm_threads[t]
        IN  /\ SecretStep(t, "check") =>
                  /\ sm_threads'[t].pc =
                        IF call.secret_name \in DOMAIN secret_cache THEN "read" ELSE "fetch"
                  /\ sm_result' = sm_result
                  /\ secret_cache' = secret_cache
            /\ SecretStep(t, "read") =>
                  /\ sm_threads'[t].pc = "compare"
                  /\ <<sm_threads'[t].secret_value, sm_threads'[t].cache_timestamp>> =
                        secret_cache[call.secret_name]
                  /\ sm_result' = sm_result
                  /\ secret_cache' = secret_cache
            /\ (SecretStep(t, "compare") /\ TtlConfigured) =>
                  /\ IF FreshEntry(call)
                     THEN /\ sm_threads'[t].pc = "idle"
                          /\ sm_result' = SecretResult(call, NoRaise, call.secret_value, 0)
                     ELSE /\ sm_threads'[t].pc = "fetch"
                          /\ sm_result' = sm_result
                  /\ secret_cache' = secret_cache
            /\ (SecretStep(t, "fetch") /\ sm_threads'[t].pc = "store") =>
                  /\ sm_threads'[t].secret_value = backend[call.secret_name]
                  /\ secret_cache' = secret_cache
            /\ SecretStep(t, "store") =>
                  /\ call.secret_name \in DOMAIN secret_cache'
                  /\ secret_cache'[call.secret_name] =
                        <<call.secret_value, call.current_time>>
                  /\ sm_result' = SecretResult(call, NoRaise, call.secret_value, 1)]_vars

\* a cached value was served at age 1 under a TTL of 2 although the secret was rotated
C22_Witness ==
    /\ ttl_env = StrV("2")
    /\ sm_result.name \in DOMAIN secret_cache
    /\ sm_result.fetched = 0
    /\ sm_result.raised = NoRaise
    /\ sm_result.current_time - secret_cache[sm_result.name][2] = 1
    /\ sm_result.value = secret_cache[sm_result.name][1]
    /\ sm_result.value # backend[sm_result.name]

\* the name of the call the thread is in after the step
SteppedName(t) ==
    IF sm_threads[t].pc = "idle" THEN sm_threads'[t].secret_name
    ELSE sm_threads[t].secret_name

\* the call of the thread ends with this step
SecretCallEnds(t) == sm_threads[t].pc # "idle" /\ sm_threads'[t].pc = "idle"

\* the entry of the name, or that there is none, is in the one cache as in the other
SameEntry(m, cache, other) ==
    IF m \in DOMAIN cache THEN m \in DOMAIN other /\ other[m] = cache[m]
    ELSE m \notin DOMAIN other

\* a step of a call changes at most the entry of its name, and only as the store after
\* a fetch that succeeded; a call that ends raising returned no value
OwnEntryAfterFetch(t) ==
    LET call == sm_threads[t]
        name == SteppedName(t)
    IN  /\ DOMAIN secret_cache' \subseteq DOMAIN secret_cache \cup {name}
        /\ \A m \in DOMAIN secret_cache :
              m # name => m \in DOMAIN secret_cache' /\ secret_cache'[m] = secret_cache[m]
        /\ secret_cache' # secret_cache =>
              /\ call.pc = "store"
              /\ sm_result'.fetched = 1 /\ sm_result'.raised = NoRaise
        /\ (sm_result' # sm_result /\ sm_result'.raised # NoRaise) =>
              /\ secret_cache' = secret_cache
              /\ sm_result'.value = ""
              /\ call.pc # "store"

\* C29 as claimed: get_secret(name) changes at most the cache entry of name, and only
\* when a fetch succeeded; when the fetch raises, the error leaves get_secret, no value
\* is returned and the cache is exactly as it was before the call; a call that ends
\* leaves the entries of the other names as they were before it.
C29_CacheAsBeforeTheCall ==
    [][\A t \in SecretThreads :
        (sm_threads'[t].pc # sm_threads[t].pc) =>
            /\ OwnEntryAfterFetch(t)
            /\ SecretCallEnds(t) =>
                  \A m \in SecretNames :
                      (m # sm_threads[t].secret_name \/ sm_result'.raised # NoRaise) =>
                          SameEntry(m, sm_threads[t].cache_before, secret_cache')]_vars

\* C29 as amended: a step of get_secret(name) changes at most the cache entry of name,
\* and only as the store after a fetch that succeeded; when the fetch raises, the error
\* leaves get_secret, no value is returned and the call has written nothing: the cache
\* is as it was before the call apart from the entries other calls stored during it;
\* a call that ends leaves the entries of the other names as they were before it, apart
\* from those other calls stored during it.
C29_OnlyOwnEntryAfterFetch ==
    [][\A t \in SecretThreads :
        (sm_threads'[t].pc # sm_threads[t].pc) =>
            /\ OwnEntryAfterFetch(t)
            /\ SecretCallEnds(t) =>
                  \A m \in SecretNames \ sm_threads[t].stored_meanwhile :
                      (m # sm_threads[t].secret_name \/ sm_result'.raised # NoRaise) =>
                          SameEntry(m, sm_threads[t].cache_before, secret_cache')]_vars

\* the fetch for an expired entry failed while the other secret is cached and no other
\* call stored during the call: the cache is as before the call, the expired entry
\* still there
C29_Witness ==
    /\ sm_result.raised = FetchFailed.raised
    /\ sm_result.fetched = 1
    /\ sm_result.stored_meanwhile = {}
    /\ sm_result.cache_before = secret_cache
    /\ DOMAIN secret_cache = SecretNames
    /\ ttl_env = StrV("2")
    /\ sm_result.current_time - secret_cache[sm_result.name][2] >= 2
    /\ \A t \in SecretThreads : sm_threads[t].pc = "idle"

(***************************************************************************)
(* Properties of environment_loader.init (specification SpecEnvironment).  *)
(* In a state where init has ended, env_result.environ is the process      *)
(* environment as init left it, after both dotenv files were loaded.       *)
(***************************************************************************)
InitEnded == env_result.how # ""
InitReturned == env_result.how = "return"
InitRaised(msg) ==
    env_result.how = "raise" /\ env_result.cls = "AssertionError" /\ env_result.msg = msg

\* the compulsory variables that pass a test, in the order of compulsory_variables
Compulsory(Test(_)) == SelectSeq(compulsory_variables, Test)

IsAbsent(var) == var \notin DOMAIN env_result.environ
HasValue(var, value) ==
    var \in DOMAIN env_result.environ /\ env_result.environ[var] = value
IsInherit(var) == HasValue(var, "INHERIT_FROM_ENVIRONMENT")
IsChangeMe(var) == HasValue(var, "CHANGE_ME")
IsAbsentOrEmpty(var) == IsAbsent(var) \/ HasValue(var, "")

\* the definition of a variable in the dotenv files init loaded is CHANGE_ME: the one
\* of the deployed file when it defines the variable, else the one of the shared file
FileSaysChangeMe(var) ==
    LET shared == env_result.loaded[1]
        deployed == env_result.loaded[2]
    IN  IF deployed # "" /\ var \in DOMAIN dotenv_files[deployed]
        THEN dotenv_files[deployed][var] = "CHANGE_ME"
        ELSE /\ shared # ""
             /\ var \in DOMAIN dotenv_files[shared]
             /\ dotenv_files[shared][var] = "CHANGE_ME"

MissingText == "Missing compulsory environment variables: "
ChangeMeText ==
    "The following variables were set as 'CHANGE_ME' but no value were found for them in the deployment environment: "
InheritText ==
    "The following variables were set as 'INHERIT_FROM_ENVIRONMENT' but no value were found for them in the deployed environment: "

StartsWith(text, prefix) ==
    Len(text) >= Len(prefix) /\ SubSeq(text, 1, Len(prefix)) = prefix

\* C23, as stated: init raises the error that names exactly the absent compulsory
\* variables, in order; with an empty list, or all present and no placeholder value in the
\* process environment, it returns.
C23_MissingNamedExactly ==
    InitEnded =>
        /\ Compulsory(IsAbsent) # <<>> =>
              InitRaised(MissingText \o Join(Compulsory(IsAbsent), ", "))
        /\ (\/ compulsory_variables = <<>>
            \/ /\ Compulsory(IsAbsent) = <<>>
               /\ Compulsory(IsChangeMe) = <<>>
               /\ Compulsory(IsInherit) = <<>>) => InitReturned

\* C23, amended: when no compulsory variable is defined as CHANGE_ME in the dotenv files
\* and none is INHERIT_FROM_ENVIRONMENT in the process environment after loading, init
\* raises the error that names exactly the absent compulsory variables, in order, and
\* returns when none is absent; with an empty list it always returns.
C23_MissingNamedWhenNoPlaceholder ==
    InitEnded =>
        /\ compulsory_variables = <<>> => InitReturned
        /\ (Compulsory(FileSaysChangeMe) = <<>> /\ Compulsory(IsInherit) = <<>>) =>
              IF Compulsory(IsAbsent) # <<>>
              THEN InitRaised(MissingText \o Join(Compulsory(IsAbsent), ", "))
              ELSE InitReturned

\* both variables are missing and are named in the order of the list
C23_Witness ==
    /\ compulsory_variables = <<"VAR2", "VAR1">>
    /\ InitRaised("Missing compulsory environment variables: VAR2, VAR1")
    /\ IsAbsent("VAR1") /\ IsAbsent("VAR2")

\* C24: a compulsory variable set to the empty string counts as missing: unless one of
\* the placeholder checks fails first, init raises the error that names the compulsory
\* variables that are absent or empty.
C24_EmptyStringIsMissing ==
    (/\ InitEnded
     /\ Compulsory(FileSaysChangeMe) = <<>>
     /\ Compulsory(IsInherit) = <<>>
     /\ Compulsory(IsAbsentOrEmpty) # <<>>) =>
        InitRaised(MissingText \o Join(Compulsory(IsAbsentOrEmpty), ", "))

\* C25: init raises the CHANGE_ME error for the compulsory variables whose value in the
\* process environment is CHANGE_ME, so it never returns while there is one, and it does
\* not raise that error when there is none.
C25_ChangeMeInProcessEnvironment ==
    InitEnded =>
        IF Compulsory(IsChangeMe) # <<>>
        THEN InitRaised(ChangeMeText \o Join(Compulsory(IsChangeMe), ", "))
        ELSE ~(env_result.how = "raise" /\ StartsWith(env_result.msg, ChangeMeText))

\* C26, as stated: init raises the INHERIT_FROM_ENVIRONMENT error that lists exactly the
\* compulsory variables with that value in the process environment after loading.
C26_InheritListedExactly ==
    InitEnded =>
        /\ Compulsory(IsInherit) # <<>> =>
              InitRaised(InheritText \o Join(Compulsory(IsInherit), ", "))
        /\ InitReturned => Compulsory(IsInherit) = <<>>

\* C26, amended: unless a compulsory variable is defined as CHANGE_ME in the dotenv files
\* (that error comes first), init raises the INHERIT_FROM_ENVIRONMENT error that lists
\* exactly the compulsory variables with that value in the process environment after
\* loading; the error is raised for no other reason, and after a successful init no
\* compulsory variable has that value.
C26_InheritListedUnlessChangeMe ==
    InitEnded =>
        /\ (Compulsory(FileSaysChangeMe) = <<>> /\ Compulsory(IsInherit) # <<>>) =>
              InitRaised(InheritText \o Join(Compulsory(IsInherit), ", "))
        /\ (env_result.how = "raise" /\ StartsWith(env_result.msg, InheritText)) =>
              Compulsory(IsInherit) # <<>>
        /\ InitReturned => Compulsory(IsInherit) = <<>>

\* the shared file gave VAR2 the value INHERIT_FROM_ENVIRONMENT and the deployment set
\* nothing for it: the error names VAR2, and not the variable that is missing
C26_Witness ==
    /\ InitEnded
    /\ compulsory_variables = <<"VAR1", "VAR2">>
    /\ IsAbsent("VAR1")
    /\ env_result.loaded[1] # ""
    /\ "VAR2" \in DOMAIN dotenv_files[env_result.loaded[1]]
    /\ dotenv_files[env_result.loaded[1]]["VAR2"] = "INHERIT_FROM_ENVIRONMENT"
    /\ InitRaised(InheritText \o "VAR2")

(***************************************************************************)
(* At most one response start per request (specification Spec).            *)
(***************************************************************************)
\* the transport's send raised while the start message of the wrapped app was being
\* forwarded to it
AppStartFailed == app_exc \in {SendError, raise_from_None(SendError)} /\ app_phase = "init"

\* a start message of the wrapped app was passed to the transport's send
AppStartOffered == StartPassed \/ AppStartFailed

\* the start message of the middleware's own response was passed to the transport's
\* send: it was accepted, or the send raised out of the middleware
OwnStartOffered ==
    \/ \E i \in 1..Len(transport) :
          transport[i].type = "http.response.start" /\ transport[i].by = "middleware"
    \/ /\ pc = "done"
       /\ response # NoResponse
       /\ leaving = Raises(raise_during(SendError, app_exc))

\* C28: for an http request, wherever the wrapped app raises, at most one response
\* start is passed to the transport's send; the middleware sends its own problem
\* response only when no start message of the app was passed on, and not when the
\* transport's send failed while the app's start message was being forwarded.
C28_AtMostOneStart ==
    scope_type = "http" =>
        /\ Cardinality({i \in 1..Len(transport) :
                           transport[i].type = "http.response.start"}) <= 1
        /\ ~(AppStartOffered /\ OwnStartOffered)
        /\ (OwnStartOffered \/ pc \in {"send_start", "send_body"}) =>
              (~response_started /\ ~AppStartOffered)
        /\ AppStartFailed =>
              /\ response_started
              /\ handler_calls = <<>>
              /\ response = NoResponse
              /\ transport = <<>>

\* the transport refused the start message of the app, and the exception has left the
\* middleware without a response of its own
C28_Witness ==
    /\ scope_type = "http"
    /\ AppStartFailed
    /\ pc = "done"
    /\ leaving = Raises(raise_from_None(SendError))
    /\ transport = <<>>
    /\ handler_calls = <<>>

\* the request is one HttpLoggingMiddleware couples: its path is not excluded and
\* dispatch has chosen the request id
Coupled == ~IsExcluded(path, MainLoggingExcludePaths) /\ st_request_id # None

\* the INCOMING REQUEST record was logged
IncomingLogged == \E i \in 1..Len(st_log) : st_log[i].msg = "INCOMING REQUEST"

\* the start of the response UnhandledExceptionsMiddleware built was sent
OwnStartPassed ==
    \E i \in 1..Len(transport) :
        transport[i].type = "http.response.start" /\ transport[i].by = "middleware"

\* the x-request-id headers of the responses whose start was sent to the client
SentRequestIds ==
    {st_sent[i] : i \in 1..Len(st_sent)}
        \cup (IF OwnStartPassed THEN {ProblemResponseRequestId(response)} ELSE {})

\* the id is the header of the request when it has one, a generated id otherwise
RequestIdChosen ==
    IF st_header # None
    THEN st_request_id = st_header
    ELSE \E generated \in GeneratedIds : st_request_id = StrV(generated)

\* the id is chosen as stated and the INCOMING REQUEST record carries it
RequestIdLogged ==
    /\ RequestIdChosen
    /\ \A i \in 1..Len(st_log) :
          st_log[i].msg = "INCOMING REQUEST" => st_log[i].request_id = st_request_id

\* C27: on a path HttpLoggingMiddleware does not exclude, the request id is the
\* x-request-id header of the request when it has one and a generated id otherwise,
\* the INCOMING REQUEST record carries that id, and every response sent for the
\* request carries the header x-request-id equal to it.
C27_EveryResponseCarriesRequestId ==
    Coupled =>
        /\ RequestIdLogged
        /\ \A sent \in SentRequestIds : sent = st_request_id

\* C27, the part that holds: the id is chosen and logged as stated, and every response
\* that HttpLoggingMiddleware.dispatch returned carries it
C27_ReturnedResponsesCarryRequestId ==
    Coupled =>
        /\ RequestIdLogged
        /\ \A i \in 1..Len(st_sent) : st_sent[i] = st_request_id

\* the response of a route function was sent with the request id of the record
C27_ReturnedWitness ==
    /\ Coupled
    /\ path = "/health"
    /\ st_route_calls = 1
    /\ IncomingLogged
    /\ st_header = None
    /\ st_sent = <<st_request_id>>
    /\ st_dir = "done"

\* the request ended: its outcome has reached the server
StackEnded == st_dir = "done"

\* KillSwitchConfig.load() raised: the path is not excluded and the path of the
\* configuration names no file or a file that holds no JSON
KillSwitchFailed ==
    /\ ~IsExcluded(path, MainExcludePaths)
    /\ KillSwitchConfig_load.raised # NoRaise

\* the exception raised inside KillSwitchMiddleware, which HttpLoggingMiddleware lets
\* through its call_next
StackFault == collapse_excgroups(KillSwitchFault(KillSwitchConfig_load))

\* the exception of the exception handler of the router, which KillSwitchMiddleware and
\* HttpLoggingMiddleware let through their call_next
RouterFault == collapse_excgroups(AliasNotSerializable)

\* the position of a middleware in the stack, from the outermost
Position(middleware) == CHOOSE d \in 1..Len(MainStack) : MainStack[d] = middleware

\* UnhandledExceptionsMiddleware wraps CORS, HttpLoggingMiddleware and KillSwitchMiddleware
UnhandledWraps ==
    \A inner \in {"CORSMiddleware", "HttpLoggingMiddleware", "KillSwitchMiddleware"} :
        Position("UnhandledExceptionsMiddleware") < Position(inner)

\* the OUTGOING RESPONSE record was logged
OutgoingLogged == \E i \in 1..Len(st_log) : st_log[i].msg = "OUTGOING RESPONSE"

\* the exception reached UnhandledExceptionsMiddleware before any response start and the
\* handler built the 500 problem response for it
Built500(fault) ==
    /\ ~StartPassed
    /\ st_sent = <<>>
    /\ Len(handler_calls) = 1
    /\ handler_calls[1].request = path
    /\ handler_calls[1].exc \in {fault, raise_from_None(fault)}
    /\ response.raised = NoRaise
    /\ response.status_code = IntV(500)
    /\ response.problem.status = IntV(500)

\* the 500 problem response was sent in full and the exception was re-raised
SentAndReraised(fault) ==
    /\ transport = ProblemMessages(response)
    /\ leaving = Raises(raise_from_None(fault))
    /\ st_result = RaiseResult(leaving.exc)

\* the transport refused a message of the 500 problem response, and its error was
\* raised while the exception was handled
RefusedByTransport(fault) ==
    /\ Len(transport) < Len(ProblemMessages(response))
    /\ transport = SubSeq(ProblemMessages(response), 1, Len(transport))
    /\ leaving = Raises(raise_during(SendError, fault))
    /\ st_result = RaiseResult(leaving.exc)

====
